---- MODULE Spec2Model ----
(***************************************************************************)
(* A model of the python-fitparse streaming decoder (fitparse/base.py,     *)
(* fitparse/records.py): file-header parsing, CRC validation, the          *)
(* local-message table, definition and data messages, the message cache    *)
(* of FitFile and the get_messages()/parse() iteration surface.            *)
(*                                                                         *)
(* The input of a decoder is a byte stream.  The streams explored are      *)
(* built, byte by byte, from small descriptions (a list of files, each a   *)
(* header shape, a list of records and a trailing-CRC shape) the way       *)
(* tests/test.py builds its synthetic files.                               *)
(***************************************************************************)
EXTENDS Integers, Sequences, FiniteSets, TLC

(***************************************************************************)
(* Bounds of the explored input space.                                     *)
(***************************************************************************)
\* records of a single file drawn from every kind of record
MaxMixedRecs == 2
\* records of a single file that uses local message number 0 only
MaxRecs == 4
\* records per file of a two-file (chained) stream
MaxChainRecs == 2
\* records of a file with an irregular header or trailing CRC
MaxDefectRecs == 2
\* get_messages() calls made on one decoder
MaxPasses == 2
\* a truncated stream: at most this many records in its last file, and at most
\* this many bytes missing at its end
MaxTruncatedRecs == 2
MaxCut == 20
\* a stream with developer data: at most this many records
MaxDeveloperRecs == 3
\* a stream of typed values: at most this many data records after its
\* definition record
MaxValueRecs == 2
\* the functions called on their own: accumulators up to this value, and
\* fields of at most this many bits
MaxAccumulation == 40
MaxBits == 6
\* messages written to one encoder
MaxEncoderWrites == 3
\* records of a file read with a name filter
MaxFilterRecs == 4
\* records of a file with unknown base-type identifiers
MaxBaseTypeRecs == 3
\* records with full and compressed timestamps after the first records of a file
MaxTimestampRecs == 3
\* data records of a file whose first record defines an event message
MaxSubFieldRecs == 2
\* data records of a file whose first record defines a message with components
MaxComponentRecs == 2
\* records of a file with definitions of every base-type identifier
MaxWireTypeRecs == 3
\* data records of a file whose first record defines fields with a scale, an
\* offset or enumerated values
MaxRenderRecs == 2
\* bytes fed to one Crc object, and update() calls made on it
MaxCrcBytes == 3
MaxCrcUpdates == 4
\* records after the first definition of a file with accumulated components
MaxAccumulatorRecs == 3
\* records of a stream read by several iterators, and the iterators
MaxIteratorRecs == 3
NumIterators == 2
\* records of a stream read with developer fields the client registered
MaxRegisteredRecs == 3
\* records of each file of a chained stream with developer fields
MaxChainedDeveloperRecs == 2

(***************************************************************************)
(* Bit arithmetic on naturals (Python's >>, & and ^ on non-negative ints), *)
(* written without recursion: x & (2^k - 1) is x % 2^k.                     *)
(***************************************************************************)
RECURSIVE Pow2(_)
Pow2(n) == IF n = 0 THEN 1 ELSE 2 * Pow2(n - 1)

\* a >> n
ShiftRight(a, n) == a \div Pow2(n)

\* a & ((1 << n) - 1)
LowBits(a, n) == a % Pow2(n)

\* bit n of a
Bit(a, n) == (a \div Pow2(n)) % 2

\* a ^ b for two 4-bit values, tabulated
XorNibbleTable ==
    [a \in 0..15 |-> [b \in 0..15 |->
        ((Bit(a, 0) + Bit(b, 0)) % 2) + 2 * ((Bit(a, 1) + Bit(b, 1)) % 2)
        + 4 * ((Bit(a, 2) + Bit(b, 2)) % 2) + 8 * ((Bit(a, 3) + Bit(b, 3)) % 2)]]

XorNibble(a, b) == XorNibbleTable[a][b]

\* a ^ b for two 16-bit values
BitXor(a, b) ==
    XorNibble(a % 16, b % 16)
    + 16 * XorNibble((a \div 16) % 16, (b \div 16) % 16)
    + 256 * XorNibble((a \div 256) % 16, (b \div 256) % 16)
    + 4096 * XorNibble((a \div 4096) % 16, (b \div 4096) % 16)

(***************************************************************************)
(* records.py: Crc                                                         *)
(***************************************************************************)
CRC_TABLE ==
    << 0, 52225, 55297, 5120, 61441, 15360, 10240, 58369,
       40961, 27648, 30720, 46081, 20480, 39937, 34817, 17408 >>

\* one nibble step of Crc.calculate
CrcNibble(crc, nibble) ==
    LET tmp == CRC_TABLE[(crc % 16) + 1]
        sh  == (crc \div 16) % 4096
        x   == BitXor(sh, tmp)
    IN  IF x >= 0 THEN BitXor(x, CRC_TABLE[(nibble % 16) + 1]) ELSE x

\* C33 mutant: the high nibble is folded before the low nibble
CrcByte_high_first(crc, byte) ==
    LET high == CrcNibble(crc, byte \div 16)
    IN  IF high >= 0 THEN CrcNibble(high, byte) ELSE high

\* the loop body of Crc.calculate: low nibble, then high nibble
CrcByte(crc, byte) ==
    LET low == CrcNibble(crc, byte)
    IN  IF low >= 0 THEN CrcNibble(low, byte \div 16) ELSE low

\* the loop of Crc.calculate over bytes[lo..hi], lo <= hi, folded left to
\* right; the range is halved so that the evaluation stays shallow
RECURSIVE CrcRange(_, _, _, _)
CrcRange(bytes, lo, hi, crc) ==
    IF lo = hi THEN CrcByte(crc, bytes[lo])
    ELSE LET mid == (lo + hi) \div 2
             left == CrcRange(bytes, lo, mid, crc)
         IN  IF left >= 0 THEN CrcRange(bytes, mid + 1, hi, left) ELSE left

\* Crc.calculate(byte_arr, crc)
CrcCalculate(bytes, crc) ==
    IF Len(bytes) = 0 THEN crc ELSE CrcRange(bytes, 1, Len(bytes), crc)

\* Crc.update(byte_arr) on a Crc whose value is crc
CrcUpdate(crc, bytes) == IF bytes # << >> THEN CrcCalculate(bytes, crc) ELSE crc

(***************************************************************************)
(* struct.pack / struct.unpack of unsigned integers                        *)
(***************************************************************************)
\* little-endian bytes of an unsigned integer of n bytes
RECURSIVE PackLE(_, _)
PackLE(v, n) == IF n = 0 THEN << >> ELSE << v % 256 >> \o PackLE(v \div 256, n - 1)

Reverse(s) == [i \in 1..Len(s) |-> s[Len(s) + 1 - i]]

\* pack(endian + fmt, v) for an unsigned integer format of n bytes
Pack(v, n, endian) == IF endian = ">" THEN Reverse(PackLE(v, n)) ELSE PackLE(v, n)

RECURSIVE UnpackLE(_)
UnpackLE(bytes) ==
    IF bytes = << >> THEN 0 ELSE bytes[1] + 256 * UnpackLE(Tail(bytes))

\* struct.unpack(endian + fmt, data) for one unsigned integer
UnpackUnsigned(bytes, endian) ==
    IF endian = ">" THEN UnpackLE(Reverse(bytes)) ELSE UnpackLE(bytes)

\* struct.unpack for one signed integer (two's complement): the most
\* significant byte carries the sign
UnpackSigned(bytes, endian) ==
    LET Signed(le, top) ==
            UnpackLE(SubSeq(le, 1, Len(le) - 1))
            + Pow2(8 * (Len(le) - 1)) * (IF top >= 128 THEN top - 256 ELSE top)
        Ordered(le) == Signed(le, le[Len(le)])
    IN  Ordered(IF endian = ">" THEN Reverse(bytes) ELSE bytes)

(***************************************************************************)
(* Python values.  A value is a record tagged with its Python type, so     *)
(* that values of different types can be compared: None, int, str (the     *)
(* code points), tuple (of values) and float (its big-endian bytes).       *)
(***************************************************************************)
None == [t |-> "none"]
IntV(n) == [t |-> "int", v |-> n]
StrV(codes) == [t |-> "str", v |-> codes]
TupleV(elems) == [t |-> "tuple", v |-> elems]
FloatV(bytes) == [t |-> "float", v |-> bytes]

(***************************************************************************)
(* records.py: BASE_TYPES, BASE_TYPE_BYTE                                  *)
(***************************************************************************)
\* BaseType(name, identifier, fmt, invalid_value); size = struct.calcsize(fmt);
\* the class attribute values = None lets a BaseType stand as a field's type.
\* invalid_value is kept as the little-endian bytes of the sentinel (0xFFFFFFFF
\* is not an integer TLC can hold); << >> stands for invalid_value=None.
BaseType(name, identifier, fmt, size, invalid) ==
    [name |-> name, identifier |-> identifier, fmt |-> fmt, size |-> size,
     invalid_value |-> invalid, values |-> << >>]

BASE_TYPE_BYTE == BaseType("byte", 13, "B", 1, << >>)

\* the keys of the BASE_TYPES dict
BaseTypeIds == {0, 1, 2, 131, 132, 133, 134, 7, 136, 137, 10, 139, 140, 13}

\* BASE_TYPES[id]
BASE_TYPES(id) ==
    CASE id = 0   -> BaseType("enum", 0, "B", 1, <<255>>)
      [] id = 1   -> BaseType("sint8", 1, "b", 1, <<127>>)
      [] id = 2   -> BaseType("uint8", 2, "B", 1, <<255>>)
      [] id = 131 -> BaseType("sint16", 131, "h", 2, <<255, 127>>)
      [] id = 132 -> BaseType("uint16", 132, "H", 2, <<255, 255>>)
      [] id = 133 -> BaseType("sint32", 133, "i", 4, <<255, 255, 255, 127>>)
      [] id = 134 -> BaseType("uint32", 134, "I", 4, <<255, 255, 255, 255>>)
      [] id = 7   -> BaseType("string", 7, "s", 1, << >>)
      [] id = 136 -> BaseType("float32", 136, "f", 4, <<255, 255, 255, 255>>)
      [] id = 137 -> BaseType("float64", 137, "d", 8,
                              <<255, 255, 255, 255, 255, 255, 255, 255>>)
      [] id = 10  -> BaseType("uint8z", 10, "B", 1, <<0>>)
      [] id = 139 -> BaseType("uint16z", 139, "H", 2, <<0, 0>>)
      [] id = 140 -> BaseType("uint32z", 140, "I", 4, <<0, 0, 0, 0>>)
      [] id = 13  -> BASE_TYPE_BYTE

\* BASE_TYPES.get(base_type_num, BASE_TYPE_BYTE)
BaseTypeGet(id) == IF id \in BaseTypeIds THEN BASE_TYPES(id) ELSE BASE_TYPE_BYTE

(***************************************************************************)
(* records.py: FieldType, Field, ComponentField, MessageType; and           *)
(* profile.py: the part of the generated profile tables the explored       *)
(* streams use.                                                            *)
(***************************************************************************)
\* FieldType(name, base_type, values); values is a dict raw value -> name
FieldType(name, values) == [name |-> name, values |-> values]

\* a BaseType standing as the type of a field: BaseType.values is None
BaseFieldType(id) == FieldType(BASE_TYPES(id).name, BASE_TYPES(id).values)

ComponentField(name, def_num, scale, bits, bit_offset, accumulate) ==
    [name |-> name, def_num |-> def_num, scale |-> scale, offset |-> 0, bits |-> bits,
     bit_offset |-> bit_offset, accumulate |-> accumulate]

\* Field(name, type, def_num, scale, units, components); scale 0 and units
\* None stand for the slots left at None, units are the code points of the
\* text ("s", "m", "m/s").  offset 0 stands for None, an offset is given
\* to a field by WithOffset and sub-fields by WithSubFields.
Field(name, type, def_num, scale, units, components) ==
    [name |-> name, type |-> type, def_num |-> def_num, scale |-> scale, offset |-> 0,
     units |-> units, components |-> components, subfields |-> << >>]

WithSubFields(field, subfields) == [field EXCEPT !.subfields = subfields]

\* a Field with its offset slot filled
WithOffset(field, offset) == [field EXCEPT !.offset = offset]

\* SubField(name, def_num, type, scale, units, components, ref_fields)
SubField(name, type, def_num, components, ref_fields) ==
    [name |-> name, type |-> type, def_num |-> def_num, scale |-> 0, offset |-> 0,
     units |-> None, components |-> components, ref_fields |-> ref_fields]

\* ReferenceField(name, def_num, value, raw_value)
ReferenceField(name, def_num, value, raw_value) ==
    [name |-> name, def_num |-> def_num, value |-> value, raw_value |-> IntV(raw_value)]

\* FIELD_TYPES['date_time'], FIELD_TYPES['localtime_into_day'],
\* FIELD_TYPES['file'], and of FIELD_TYPES['event'], ['event_type'] and
\* ['timer_trigger'] the values the explored streams use
FIELD_TYPES(name) ==
    CASE name = "file" -> FieldType("file", [v \in {1, 4} |-> IF v = 1 THEN "device"
                                                               ELSE "activity"])
      [] name = "event" ->
           FieldType("event", [v \in {0, 33, 42, 43} |->
                                  CASE v = 0 -> "timer" [] v = 33 -> "sport_point"
                                    [] v = 42 -> "front_gear_change"
                                    [] v = 43 -> "rear_gear_change"])
      [] name = "event_type" -> FieldType("event_type", [v \in {0} |-> "start"])
      [] name = "timer_trigger" ->
           FieldType("timer_trigger", [v \in {0, 1, 2} |->
                                          CASE v = 0 -> "manual" [] v = 1 -> "auto"
                                            [] v = 2 -> "fitness_equipment"])
      [] OTHER -> FieldType(name, << >>)

\* profile.FIELD_TYPE_TIMESTAMP
FIELD_TYPE_TIMESTAMP ==
    Field("timestamp", FIELD_TYPES("date_time"), 253, 0, StrV(<< 115 >>), << >>)

\* the global message numbers of MESSAGE_TYPES: file_id, record, event,
\* field_description, developer_data_id
MesgNums == {0, 20, 21, 206, 207}

\* the sub-fields of the field data of event, in the order of the profile:
\* of its sub-fields those the explored streams use
EventDataSubFields ==
    << SubField("timer_trigger", FIELD_TYPES("timer_trigger"), 3, << >>,
                << ReferenceField("event", 0, "timer", 0) >>),
       SubField("sport_point", BaseFieldType(134), 3,
                << ComponentField("score", 7, 0, 16, 0, FALSE),
                   ComponentField("opponent_score", 8, 0, 16, 16, FALSE) >>,
                << ReferenceField("event", 0, "sport_point", 33) >>),
       SubField("gear_change_data", BaseFieldType(134), 3,
                << ComponentField("rear_gear_num", 11, 0, 8, 0, FALSE),
                   ComponentField("rear_gear", 12, 0, 8, 8, FALSE),
                   ComponentField("front_gear_num", 9, 0, 8, 16, FALSE),
                   ComponentField("front_gear", 10, 0, 8, 24, FALSE) >>,
                << ReferenceField("event", 0, "front_gear_change", 42),
                   ReferenceField("event", 0, "rear_gear_change", 43) >>) >>

\* MESSAGE_TYPES[mesg_num].fields, a dict def_num -> Field
MesgFields(mesg_num) ==
    CASE mesg_num = 0 ->
           [d \in {0, 1, 2, 3, 4, 5, 8} |->
            CASE d = 0 -> Field("type", FIELD_TYPES("file"), 0, 0, None, << >>)
              [] d = 1 -> Field("manufacturer", BaseFieldType(132), 1, 0, None, << >>)
              [] d = 2 -> Field("product", BaseFieldType(132), 2, 0, None, << >>)
              [] d = 3 -> Field("serial_number", BaseFieldType(140), 3, 0, None, << >>)
              [] d = 4 -> Field("time_created", FIELD_TYPES("date_time"), 4, 0, None, << >>)
              [] d = 5 -> Field("number", BaseFieldType(132), 5, 0, None, << >>)
              [] d = 8 -> Field("product_name", BaseFieldType(7), 8, 0, None, << >>)]
      [] mesg_num = 20 ->
           [d \in {253, 2, 5, 6, 8, 9} |->
            CASE d = 253 -> FIELD_TYPE_TIMESTAMP
              [] d = 2 -> WithOffset(Field("altitude", BaseFieldType(132), 2, 5,
                                           StrV(<< 109 >>), << >>), 500)
              [] d = 5 -> Field("distance", BaseFieldType(134), 5, 100, StrV(<< 109 >>), << >>)
              [] d = 6 -> Field("speed", BaseFieldType(132), 6, 1000, StrV(<< 109, 47, 115 >>), << >>)
              [] d = 8 -> Field("compressed_speed_distance", BaseFieldType(13), 8, 0, None,
                                << ComponentField("speed", 6, 100, 12, 0, FALSE),
                                   ComponentField("distance", 5, 16, 12, 12, TRUE) >>)
              [] d = 9 -> Field("time_into_day", FIELD_TYPES("localtime_into_day"), 9, 0,
                                StrV(<< 115 >>), << >>)]
      [] mesg_num = 21 ->
           [d \in {0, 1, 2, 3, 7, 8, 9, 10, 11, 12} |->
            CASE d = 0 -> Field("event", FIELD_TYPES("event"), 0, 0, None, << >>)
              [] d = 1 -> Field("event_type", FIELD_TYPES("event_type"), 1, 0, None, << >>)
              [] d = 2 -> Field("data16", BaseFieldType(132), 2, 0, None,
                                << ComponentField("data", 3, 0, 16, 0, FALSE) >>)
              [] d = 3 -> WithSubFields(Field("data", BaseFieldType(134), 3, 0, None, << >>),
                                        EventDataSubFields)
              [] d = 7 -> Field("score", BaseFieldType(132), 7, 0, None, << >>)
              [] d = 8 -> Field("opponent_score", BaseFieldType(132), 8, 0, None, << >>)
              [] d = 9 -> Field("front_gear_num", BaseFieldType(10), 9, 0, None, << >>)
              [] d = 10 -> Field("front_gear", BaseFieldType(10), 10, 0, None, << >>)
              [] d = 11 -> Field("rear_gear_num", BaseFieldType(10), 11, 0, None, << >>)
              [] d = 12 -> Field("rear_gear", BaseFieldType(10), 12, 0, None, << >>)]
      [] mesg_num = 206 ->
           [d \in {0, 1, 2} |->
            CASE d = 0 -> Field("developer_data_index", BaseFieldType(2), 0, 0, None, << >>)
              [] d = 1 -> Field("field_definition_number", BaseFieldType(2), 1, 0, None,
                                << >>)
              [] d = 2 -> Field("fit_base_type_id", BaseFieldType(2), 2, 0, None, << >>)]
      [] mesg_num = 207 ->
           [d \in {1, 3} |->
            CASE d = 1 -> Field("application_id", BaseFieldType(13), 1, 0, None, << >>)
              [] d = 3 -> Field("developer_data_index", BaseFieldType(2), 3, 0, None, << >>)]

\* MESSAGE_TYPES[mesg_num]
MessageType(mesg_num) ==
    [name |-> CASE mesg_num = 0 -> "file_id"
                [] mesg_num = 20 -> "record"
                [] mesg_num = 21 -> "event"
                [] mesg_num = 206 -> "field_description"
                [] mesg_num = 207 -> "developer_data_id",
     mesg_num |-> mesg_num, fields |-> MesgFields(mesg_num)]

\* MESSAGE_TYPES.get(global_mesg_num)
MessageTypeGet(mesg_num) == IF mesg_num \in MesgNums THEN MessageType(mesg_num) ELSE None

(***************************************************************************)
(* The input streams.  tests/test.py builds a synthetic file from a list   *)
(* of definition and data records (generate_messages) wrapped in a header  *)
(* and a trailing CRC (generate_fitfile).  A stream is described by a list *)
(* of files, each [hdr, recs, crc]: the shape of its header, the records   *)
(* of its body (indices into RecordKinds) and the shape of its trailing    *)
(* CRC.                                                                    *)
(***************************************************************************)
\* a field triplet of a definition record
Triplet(def_num, size, base_type_id) ==
    [def_num |-> def_num, size |-> size, base_type_id |-> base_type_id]

\* a developer field triplet of a definition record
DevTriplet(def_num, size, dev_data_index) ==
    [def_num |-> def_num, size |-> size, dev_data_index |-> dev_data_index]

\* a definition record with developer fields (the header's developer-data bit)
DevDefRec(local, endian, mesg_num, triplets, dev_triplets) ==
    [k |-> "def", local |-> local, endian |-> endian, mesg_num |-> mesg_num,
     fields |-> triplets, dev_fields |-> dev_triplets, compressed |-> FALSE,
     time_offset |-> 0, fill |-> "num"]

DefRec(local, endian, mesg_num, triplets) ==
    DevDefRec(local, endian, mesg_num, triplets, << >>)

DataRec(local, compressed, time_offset, fill) ==
    [k |-> "data", local |-> local, endian |-> "<", mesg_num |-> 0,
     fields |-> << >>, dev_fields |-> << >>, compressed |-> compressed,
     time_offset |-> time_offset, fill |-> fill]

\* the fields of the definition records 13..16: one field of every integer
\* base type whose values fit 31 bits, a byte field, and two fields of two
\* elements
IntegerTriplets ==
    << Triplet(0, 1, 0), Triplet(1, 1, 1), Triplet(2, 1, 2), Triplet(3, 2, 131),
       Triplet(4, 2, 132), Triplet(5, 4, 133), Triplet(6, 4, 134), Triplet(7, 1, 10),
       Triplet(8, 2, 139), Triplet(9, 2, 13), Triplet(10, 4, 132), Triplet(11, 8, 134) >>

\* the fields of the definition record 45: one element of every key of
\* BASE_TYPES
WireTriplets ==
    << Triplet(0, 1, 0), Triplet(1, 1, 1), Triplet(2, 1, 2), Triplet(3, 2, 131),
       Triplet(4, 2, 132), Triplet(5, 4, 133), Triplet(6, 4, 134), Triplet(7, 1, 7),
       Triplet(8, 4, 136), Triplet(9, 8, 137), Triplet(10, 1, 10), Triplet(11, 2, 139),
       Triplet(12, 4, 140), Triplet(13, 1, 13) >>

\* the fields of the definition records 17 and 18
RecordTriplets ==
    << Triplet(FIELD_TYPE_TIMESTAMP.def_num, 4, 134), Triplet(5, 4, 134),
       Triplet(8, 3, 13), Triplet(6, 2, 132) >>

\* The records a body is made of.
\*  1  file_id on local 0, little-endian: type (enum), manufacturer (uint16)
\*  2  record on local 0, big-endian: timestamp (uint32) and
\*     compressed_speed_distance (3 bytes), whose distance component accumulates
\*  3  file_id on local 1: manufacturer declared with 3 bytes of uint16 (not a
\*     multiple of 2) and product_name, a 2-byte string
\*  4  a message the profile does not know (65280) on local 1: field 9 of an unknown base type, field 10
\*     declared with 3 bytes of uint16
\*  5  a data record on local 0, every payload byte 0x01
\*  6  a compressed-timestamp data record on local 0, time offset 3
\*  7  a data record on local 1, every payload byte 'A' (unterminated strings)
\*  8  a data record on local 1, every field 'A'.. ended by a 0x00 byte
\*  9  file_id on local 0 with the developer field 0 of developer data index 0
\* 10  developer_data_id on local 1: developer_data_index, application_id
\* 11  field_description on local 1: developer_data_index,
\*     field_definition_number, fit_base_type_id
\* 12  a data record on local 1, every payload byte 0x00
\* 13, 14  an unknown message on local 0 with the IntegerTriplets, little-
\*     and big-endian
\* 15, 16  an unknown message on local 0 with one uint32z field, little- and
\*     big-endian
\* 17, 18  record on local 0 with the RecordTriplets, little- and big-endian
\* 19, 20  file_id on local 0: type, time_created, number (two elements),
\*     little- and big-endian
\* 21  record on local 0: time_into_day
\* 22..31  a data record on local 0 filled element by element (ElementLE)
\* 32, 33  a compressed-timestamp data record on local 0, time offset 3
\* 34  an unknown message on local 1 with the unknown base-type identifier 51
\* 35, 36  compressed-timestamp data records: on local 0 with time offset 1,
\*     on local 1 with time offset 0
\* 37..40  event on local 1: event and data; event, event_type and data16;
\*     event, a second field 0 of sint16, and data; data alone
\* 41..44  data records on local 1 filled element by element
\* 45  an unknown message on local 1 with one field of every key of BASE_TYPES
\* 46  an unknown message on local 1 with fields of the base-type
\*     identifiers 0x8E, 0x8F and 0x90
\* 47  record on local 1: altitude, altitude of two elements, speed
\* 48  file_id on local 1: type, type of two elements
\* 49  file_id on local 1: manufacturer, product_name
\* 50  a data record on local 1, every byte 0xFF
\* 51  record on local 1: compressed_speed_distance
\* 52  file_id on local 0 with the developer field 0 of 3 bytes
\* 53  file_id on local 0 with the developer field 0 of 4 bytes
RecordKinds ==
    << DefRec(0, "<", 0, << Triplet(0, 1, 0), Triplet(1, 2, 132) >>),
       DefRec(0, ">", 20, << Triplet(FIELD_TYPE_TIMESTAMP.def_num, 4, 134), Triplet(8, 3, 13) >>),
       DefRec(1, "<", 0, << Triplet(1, 3, 132), Triplet(8, 2, 7) >>),
       DefRec(1, "<", 65280, << Triplet(9, 2, 51), Triplet(10, 3, 132) >>),
       DataRec(0, FALSE, 0, "num"),
       DataRec(0, TRUE, 3, "num"),
       DataRec(1, FALSE, 0, "text"),
       DataRec(1, FALSE, 0, "textz"),
       DevDefRec(0, "<", 0, << Triplet(0, 1, 0) >>, << DevTriplet(0, 1, 0) >>),
       DefRec(1, "<", 207, << Triplet(3, 1, 2), Triplet(1, 2, 13) >>),
       DefRec(1, "<", 206, << Triplet(0, 1, 2), Triplet(1, 1, 2), Triplet(2, 1, 2) >>),
       DataRec(1, FALSE, 0, "zero"),
       DefRec(0, "<", 65280, IntegerTriplets),
       DefRec(0, ">", 65280, IntegerTriplets),
       DefRec(0, "<", 65280, << Triplet(0, 4, 140) >>),
       DefRec(0, ">", 65280, << Triplet(0, 4, 140) >>),
       DefRec(0, "<", 20, RecordTriplets),
       DefRec(0, ">", 20, RecordTriplets),
       DefRec(0, "<", 0, << Triplet(0, 1, 0), Triplet(4, 4, 134), Triplet(5, 4, 132) >>),
       DefRec(0, ">", 0, << Triplet(0, 1, 0), Triplet(4, 4, 134), Triplet(5, 4, 132) >>),
       DefRec(0, "<", 20, << Triplet(9, 4, 134) >>),
       DataRec(0, FALSE, 0, "ff"),
       DataRec(0, FALSE, 0, "max"),
       DataRec(0, FALSE, 0, "zero"),
       DataRec(0, FALSE, 0, "seq"),
       DataRec(0, FALSE, 0, "ffseq"),
       DataRec(0, FALSE, 0, "small"),
       DataRec(0, FALSE, 0, "lastsec"),
       DataRec(0, FALSE, 0, "day"),
       DataRec(0, FALSE, 0, "epoch"),
       DataRec(0, FALSE, 0, "below"),
       DataRec(0, TRUE, 3, "epoch"),
       DataRec(0, TRUE, 3, "small"),
       DefRec(1, "<", 65280, << Triplet(9, 2, 51), Triplet(10, 1, 2) >>),
       DataRec(0, TRUE, 1, "num"),
       DataRec(1, TRUE, 0, "num"),
       DefRec(1, "<", 21, << Triplet(0, 1, 0), Triplet(3, 4, 134) >>),
       DefRec(1, "<", 21, << Triplet(0, 1, 0), Triplet(1, 1, 0), Triplet(2, 2, 132) >>),
       DefRec(1, "<", 21, << Triplet(0, 1, 0), Triplet(0, 2, 131), Triplet(3, 4, 134) >>),
       DefRec(1, "<", 21, << Triplet(3, 4, 134) >>),
       DataRec(1, FALSE, 0, "sport"),
       DataRec(1, FALSE, 0, "front"),
       DataRec(1, FALSE, 0, "timer"),
       DataRec(1, FALSE, 0, "small"),
       DefRec(1, "<", 65280, WireTriplets),
       DefRec(1, "<", 65280, << Triplet(0, 8, 142), Triplet(1, 8, 143), Triplet(2, 16, 144) >>),
       DefRec(1, "<", 20, << Triplet(2, 2, 132), Triplet(2, 4, 132), Triplet(6, 2, 132) >>),
       DefRec(1, "<", 0, << Triplet(0, 1, 0), Triplet(0, 2, 0) >>),
       DefRec(1, "<", 0, << Triplet(1, 2, 132), Triplet(8, 2, 7) >>),
       DataRec(1, FALSE, 0, "ff"),
       DefRec(1, "<", 20, << Triplet(8, 3, 13) >>),
       DevDefRec(0, "<", 0, << Triplet(0, 1, 0) >>, << DevTriplet(0, 3, 0) >>),
       DevDefRec(0, "<", 0, << Triplet(0, 1, 0) >>, << DevTriplet(0, 4, 0) >>) >>

NumKinds == Len(RecordKinds)

LocalNums == {0, 1}

\* generate_messages: the bytes of a definition record
EncodeDef(r) ==
    LET RECURSIVE Trips(_)
        Trips(i) ==
            IF i > Len(r.fields) THEN << >>
            ELSE << r.fields[i].def_num, r.fields[i].size, r.fields[i].base_type_id >>
                 \o Trips(i + 1)
        RECURSIVE DevTrips(_)
        DevTrips(i) ==
            IF i > Len(r.dev_fields) THEN << >>
            ELSE << r.dev_fields[i].def_num, r.dev_fields[i].size,
                    r.dev_fields[i].dev_data_index >>
                 \o DevTrips(i + 1)
    IN  << 64 + (IF r.dev_fields # << >> THEN 32 ELSE 0) + r.local, 0,
           IF r.endian = ">" THEN 1 ELSE 0 >>
        \o Pack(r.mesg_num, 2, r.endian) \o << Len(r.fields) >> \o Trips(1)
        \o (IF r.dev_fields # << >> THEN << Len(r.dev_fields) >> \o DevTrips(1)
            ELSE << >>)

\* the payload bytes of one field of `size` bytes filled byte by byte
FieldBytes(size, fill) ==
    [i \in 1..size |->
        IF fill = "num" THEN 1
        ELSE IF fill = "textz" /\ i = size THEN 0
        ELSE 65]

\* the fills that give every element of a field a value
\*  ff       every byte 0xFF
\*  max      the largest signed value: 0x7F, 0x7FFF, 0x7FFFFFFF
\*  zero     0
\*  seq      0x01, 0x0201, 0x04030201
\*  ffseq    the first element as ff, the others as seq
\*  small    513 (0x01 in one byte)
\*  lastsec  86399, the last second of a day (in four bytes)
\*  day      86400
\*  epoch    0x10000000
\*  below    0x0FFFFFFF
\*  sport    33 in one byte, 0 in two, 123 + 456 * 2^16 in four
\*  front    42 in one byte, 2 in two, 4 + 20 * 2^8 + 2 * 2^16 + 34 * 2^24 in four
\*  timer    0 in one byte, 2 in two and in four
ElementFills ==
    {"ff", "max", "zero", "seq", "ffseq", "small", "lastsec", "day", "epoch", "below",
     "sport", "front", "timer"}

\* the little-endian bytes of element j of a field, n bytes each
ElementLE(fill, n, j) ==
    LET Low(pattern) == [b \in 1..n |-> pattern[((b - 1) % 4) + 1]]
    IN  CASE fill = "max" -> [b \in 1..n |-> IF b = n THEN 127 ELSE 255]
          [] fill = "ff" \/ (fill = "ffseq" /\ j = 1) -> Low(<< 255, 255, 255, 255 >>)
          [] fill = "zero" -> Low(<< 0, 0, 0, 0 >>)
          [] fill = "small" -> Low(<< 1, 2, 0, 0 >>)
          [] fill = "lastsec" -> Low(<< 127, 81, 1, 0 >>)
          [] fill = "day" -> Low(<< 128, 81, 1, 0 >>)
          [] fill = "epoch" -> Low(<< 0, 0, 0, 16 >>)
          [] fill = "below" -> Low(<< 255, 255, 255, 15 >>)
          [] fill = "sport" -> IF n = 1 THEN << 33 >> ELSE IF n = 2 THEN << 0, 0 >>
                               ELSE Low(<< 123, 0, 200, 1 >>)
          [] fill = "front" -> IF n = 1 THEN << 42 >> ELSE IF n = 2 THEN << 2, 0 >>
                               ELSE Low(<< 4, 20, 2, 34 >>)
          [] fill = "timer" -> IF n = 1 THEN << 0 >> ELSE Low(<< 2, 0, 0, 0 >>)
          [] OTHER -> Low(<< 1, 2, 3, 4 >>)

\* the part of a field definition the payload of a data record depends on:
\* the field's size, the size of one element and the byte order
Slot(size, elem, endian) == [size |-> size, elem |-> elem, endian |-> endian]

\* the slots a definition record binds to its local message number: its
\* fields, then its developer fields (byte elements)
Slots(r) ==
    LET Elem(t) ==
            IF t.base_type_id \in BaseTypeIds
               /\ t.size % BASE_TYPES(t.base_type_id).size = 0
            THEN BASE_TYPES(t.base_type_id).size ELSE 1
    IN  [i \in 1..Len(r.fields) |-> Slot(r.fields[i].size, Elem(r.fields[i]), r.endian)]
        \o [i \in 1..Len(r.dev_fields) |-> Slot(r.dev_fields[i].size, 1, r.endian)]

\* the payload bytes of one field: pack(endian + fmt, value) of its elements
SlotBytes(slot, fill) ==
    LET RECURSIVE Elements(_)
        Elements(j) ==
            IF j > slot.size \div slot.elem THEN << >>
            ELSE (IF slot.endian = ">" THEN Reverse(ElementLE(fill, slot.elem, j))
                  ELSE ElementLE(fill, slot.elem, j))
                 \o Elements(j + 1)
    IN  IF fill \in ElementFills THEN Elements(1) ELSE FieldBytes(slot.size, fill)

\* generate_messages: the bytes of a data record laid out by the slots bound
\* to its local number (none: the header byte alone)
EncodeData(r, slots) ==
    LET RECURSIVE Payload(_)
        Payload(i) ==
            IF i > Len(slots) THEN << >>
            ELSE SlotBytes(slots[i], r.fill) \o Payload(i + 1)
    IN  << IF r.compressed THEN 128 + 32 * r.local + r.time_offset ELSE r.local >>
        \o Payload(1)

\* the bytes of the records recs[i..], bound[l] being the slots bound to l
RECURSIVE EncodeRecs(_, _, _)
EncodeRecs(recs, i, bound) ==
    IF i > Len(recs) THEN << >>
    ELSE LET r == RecordKinds[recs[i]]
         IN  IF r.k = "def"
             THEN EncodeDef(r)
                  \o EncodeRecs(recs, i + 1, [bound EXCEPT ![r.local] = Slots(r)])
             ELSE EncodeData(r, bound[r.local]) \o EncodeRecs(recs, i + 1, bound)

EncodeBody(recs) == EncodeRecs(recs, 1, [l \in LocalNums |-> << >>])

\* the shapes of a file header
\*  h14      14 bytes, the CRC of the first 12 in bytes 12..13
\*  h12      12 bytes, no header CRC
\*  h14zero  14 bytes, header CRC 0
\*  h14bad   14 bytes, a nonzero header CRC that is not the CRC of the 12 bytes
\*  h16      16 bytes: header CRC and two reserved bytes
\*  h13      header_size 13: one extra byte
\*  h11      header_size 11 (less than the 12 bytes every header has)
\*  magic    14 bytes with ".FIX" for ".FIT"
HeaderShapes == {"h14", "h12", "h14zero", "h14bad", "h16", "h13", "h11", "magic"}

\* a 16-bit value that is neither 0 nor v
Corrupt(v) == IF v = 1 THEN 2 ELSE 1

\* generate_fitfile: the header (protocol version 1.0, profile version 1.52)
EncodeHeader(hdr, data_size) ==
    LET size == CASE hdr = "h12" -> 12 [] hdr = "h16" -> 16 [] hdr = "h13" -> 13
                  [] hdr = "h11" -> 11 [] OTHER -> 14
        first == << size, 16 >> \o Pack(152, 2, "<") \o Pack(data_size, 4, "<")
                 \o (IF hdr = "magic" THEN << 46, 70, 73, 88 >> ELSE << 46, 70, 73, 84 >>)
        c == CrcCalculate(first, 0)
    IN  CASE hdr \in {"h12", "h11"} -> first
          [] hdr = "h13" -> first \o << 0 >>
          [] hdr = "h14zero" -> first \o << 0, 0 >>
          [] hdr = "h14bad" -> first \o Pack(Corrupt(c), 2, "<")
          [] hdr = "h16" -> first \o Pack(c, 2, "<") \o << 0, 0 >>
          [] OTHER -> first \o Pack(c, 2, "<")

\* the shapes of the trailing CRC: the CRC of the file, 0, or a wrong nonzero value
CrcShapes == {"ok", "zero", "bad"}

\* generate_fitfile: header, body and trailing CRC of one file
EncodeFile(f) ==
    LET body == EncodeBody(f.recs)
        data == EncodeHeader(f.hdr, Len(body)) \o body
        c == CrcCalculate(data, 0)
    IN  data \o Pack(CASE f.crc = "ok" -> c [] f.crc = "zero" -> 0 [] OTHER -> Corrupt(c),
                     2, "<")

\* a chained stream is the concatenation of its files
RECURSIVE EncodeStream(_)
EncodeStream(files) ==
    IF files = << >> THEN << >> ELSE EncodeFile(Head(files)) \o EncodeStream(Tail(files))

(***************************************************************************)
(* The state: one decoder over one input stream.                           *)
(***************************************************************************)
VARIABLES
    input,          \* the description the stream was built from
    file,           \* the bytes of the stream (self._file's contents)
    check_crc,      \* the check_crc argument
    cached,         \* TRUE: FitFile (CacheMixin); FALSE: UncachedFitFile
    check_developer_data,   \* the check_developer_data argument
    pc,             \* "new" before the constructor, "open" after it, "failed"
                    \* once a call has raised
    pos,            \* self._file.tell()
    closed,         \* self._file is None (close() was called)
    crc,            \* self._crc.value
    bytes_left,     \* self._bytes_left
    complete,       \* self._complete
    compressed_ts_accumulator,  \* self._compressed_ts_accumulator
    accumulators,   \* self._accumulators: mesg_num -> component def_num -> value
    local_mesgs,    \* self._local_mesgs: local_mesg_num -> DefinitionMessage
    dev_types,      \* self.dev_types: dev_data_index -> fields
    messages,       \* self._messages, the cache of CacheMixin
    warnings,       \* the warnings.warn() calls made so far, in order
    error,          \* the exception the last call raised, "none" if it returned
    gen,            \* the generator of the current get_messages() call
    yielded,        \* the messages that generator has yielded, in order
    passes,         \* the number of get_messages() calls made
    name_args,      \* the name arguments the client passes to get_messages()
    enc,            \* a FitFileEncoder and the stream it writes
    probe           \* a call of a function of the library: arguments, result

vars ==
    << input, file, check_crc, cached, check_developer_data, pc, pos, closed, crc,
       bytes_left, complete, compressed_ts_accumulator, accumulators, local_mesgs,
       dev_types, messages, warnings, error, gen, yielded, passes, name_args, enc,
       probe >>

\* a dict: a function whose domain is the set of keys
EmptyDict == [k \in {} |-> None]

DictSet(d, k, v) == [x \in DOMAIN d \cup {k} |-> IF x = k THEN v ELSE d[x]]

(***************************************************************************)
(* The decoder object as a record, threaded through the methods below.     *)
(* `err` is the exception in flight ("none": no exception), `data` the     *)
(* bytes the last _read returned and `ret` the last method's return value. *)
(***************************************************************************)
Self ==
    [pos |-> pos, closed |-> closed, crc |-> crc, bytes_left |-> bytes_left,
     complete |-> complete, compressed_ts_accumulator |-> compressed_ts_accumulator,
     accumulators |-> accumulators, local_mesgs |-> local_mesgs,
     dev_types |-> dev_types, messages |-> messages, warnings |-> warnings,
     err |-> "none", data |-> << >>, ret |-> None]

Raise(s, exc) == [s EXCEPT !.err = exc]

Failed(s) == s.err # "none"

\* the outcome of a function that raises exc in place of returning a value
Raised(exc) == [t |-> "raise", v |-> exc]

\* the statements K that follow a call which left the decoder as s: they run
\* unless the call raised
Then(s, K(_)) == IF Failed(s) THEN s ELSE K(s)

Warn(s, text) == [s EXCEPT !.warnings = Append(@, text)]

\* FitFileDecoder.close
close(s) == IF ~s.closed THEN [s EXCEPT !.closed = TRUE] ELSE s

\* FitFileDecoder._read
read(s, size) ==
    IF size <= 0 THEN [s EXCEPT !.data = << >>]
    ELSE IF s.closed THEN Raise(s, "AttributeError")
    ELSE IF s.pos + size > Len(file)
         THEN Raise([s EXCEPT !.pos = Len(file)], "FitEOFError")
         ELSE [s EXCEPT !.pos = @ + size,
                        !.data = SubSeq(file, s.pos + 1, s.pos + size),
                        !.crc = IF check_crc
                                THEN CrcUpdate(@, SubSeq(file, s.pos + 1, s.pos + size))
                                ELSE @,
                        !.bytes_left = @ - size]

\* FitFileDecoder._read_struct(fmt) for a format of `size` bytes: the bytes are
\* left in .data for the caller to unpack
read_struct(s, size) ==
    IF size <= 0 THEN Raise(s, "FitParseError") ELSE read(s, size)

\* C6 mutant: a stored CRC of zero always accepted
read_and_assert_crc_zero_ok(s, allow_zero) ==
    LET Compare(s1, crc_computed, crc_read) ==
            IF ~check_crc THEN s1
            ELSE IF crc_computed = crc_read \/ crc_read = 0 THEN s1
            ELSE Raise(s1, "FitCRCError")
    IN  Then(read_struct(s, 2),
             LAMBDA s1 : Compare(s1, s.crc, UnpackUnsigned(s1.data, "<")))

\* FitFileDecoder._read_and_assert_crc
read_and_assert_crc(s, allow_zero) ==
    LET Compare(s1, crc_computed, crc_read) ==
            IF ~check_crc THEN s1
            ELSE IF crc_computed = crc_read \/ (allow_zero /\ crc_read = 0) THEN s1
            ELSE Raise(s1, "FitCRCError")
    IN  Then(read_struct(s, 2),
             LAMBDA s1 : Compare(s1, s.crc, UnpackUnsigned(s1.data, "<")))

\* C5 mutant: _parse_file_header without the initialisation of the per-file
\* state
parse_file_header_no_reset(s) ==
    LET Sized(s1, header_size, data_size) ==
            IF header_size - 12 > 0
            THEN IF header_size - 12 < 2 THEN Raise(s1, "FitHeaderError")
                 ELSE Then(read_and_assert_crc(s1, TRUE),
                        LAMBDA s2 : Then(read(s2, header_size - 12 - 2),
                            LAMBDA s3 : [s3 EXCEPT !.bytes_left = data_size]))
            ELSE [s1 EXCEPT !.bytes_left = data_size]
        Header(s1) ==
            IF SubSeq(s1.data, 9, 12) # << 46, 70, 73, 84 >>
            THEN Raise(s1, "FitHeaderError")
            ELSE Sized(s1, s1.data[1], UnpackUnsigned(SubSeq(s1.data, 5, 8), "<"))
    IN  Then(read([s EXCEPT !.complete = FALSE, !.crc = 0], 12), Header)

\* C7 mutant: the header CRC read without allow_zero
parse_file_header_strict_crc(s) ==
    LET Sized(s1, header_size, data_size) ==
            IF header_size - 12 > 0
            THEN IF header_size - 12 < 2 THEN Raise(s1, "FitHeaderError")
                 ELSE Then(read_and_assert_crc(s1, FALSE),
                        LAMBDA s2 : Then(read(s2, header_size - 12 - 2),
                            LAMBDA s3 : [s3 EXCEPT !.bytes_left = data_size]))
            ELSE [s1 EXCEPT !.bytes_left = data_size]
        Header(s1) ==
            IF SubSeq(s1.data, 9, 12) # << 46, 70, 73, 84 >>
            THEN Raise(s1, "FitHeaderError")
            ELSE Sized(s1, s1.data[1], UnpackUnsigned(SubSeq(s1.data, 5, 8), "<"))
    IN  Then(read([s EXCEPT !.accumulators = EmptyDict,
                            !.bytes_left = -1,
                            !.complete = FALSE,
                            !.compressed_ts_accumulator = IntV(0),
                            !.crc = 0,
                            !.local_mesgs = EmptyDict], 12),
             Header)

\* FitFileDecoder._parse_file_header
parse_file_header(s) ==
    LET Sized(s1, header_size, data_size) ==
            IF header_size - 12 > 0
            THEN IF header_size - 12 < 2 THEN Raise(s1, "FitHeaderError")
                 ELSE Then(read_and_assert_crc(s1, TRUE),
                        LAMBDA s2 : Then(read(s2, header_size - 12 - 2),
                            LAMBDA s3 : [s3 EXCEPT !.bytes_left = data_size]))
            ELSE [s1 EXCEPT !.bytes_left = data_size]
        Header(s1) ==
            IF SubSeq(s1.data, 9, 12) # << 46, 70, 73, 84 >>
            THEN Raise(s1, "FitHeaderError")
            ELSE Sized(s1, s1.data[1], UnpackUnsigned(SubSeq(s1.data, 5, 8), "<"))
    IN  Then(read([s EXCEPT !.accumulators = EmptyDict,
                            !.bytes_left = -1,
                            !.complete = FALSE,
                            !.compressed_ts_accumulator = IntV(0),
                            !.crc = 0,
                            !.local_mesgs = EmptyDict], 12),
             Header)

(***************************************************************************)
(* records.py: the message records.  `offset` is the stream position of    *)
(* the record's header byte: it stands for the identity of the Python      *)
(* object, one object being built per record read.                         *)
(***************************************************************************)
MessageHeader(is_definition, is_developer_data, local_mesg_num, time_offset) ==
    [is_definition |-> is_definition, is_developer_data |-> is_developer_data,
     local_mesg_num |-> local_mesg_num, time_offset |-> time_offset]

FieldDefinition(field, def_num, base_type, size) ==
    [field |-> field, def_num |-> def_num, base_type |-> base_type, size |-> size]

\* DevFieldDefinition.__init__: base_type is the developer field's type
DevFieldDefinition(field, dev_data_index, def_num, size) ==
    [field |-> field, def_num |-> def_num, base_type |-> field.type, size |-> size,
     dev_data_index |-> dev_data_index]

DevField(dev_data_index, def_num, type, name, units) ==
    [dev_data_index |-> dev_data_index, def_num |-> def_num, type |-> type,
     name |-> name, units |-> units, scale |-> 0, offset |-> 0,
     components |-> << >>, subfields |-> << >>]

\* mesg_type is None or the profile's MessageType
DefinitionMessage(offset, header, endian, mesg_type, mesg_num, field_defs, dev_field_defs) ==
    [type |-> "definition", offset |-> offset, header |-> header, endian |-> endian,
     mesg_type |-> mesg_type,
     mesg_num |-> mesg_num, field_defs |-> field_defs,
     dev_field_defs |-> dev_field_defs]

\* FieldData.__init__.  field_def is 0 for None, else the position of the
\* FieldDefinition among def_mesg.field_defs + def_mesg.dev_field_defs; units
\* default to the units of the field
FieldData(field_def, field, parent_field, value, raw_value) ==
    [field_def |-> field_def, field |-> field, parent_field |-> parent_field,
     value |-> value, raw_value |-> raw_value,
     units |-> IF field # None THEN field.units ELSE None]

DataMessage(offset, header, def_mesg, fields) ==
    [type |-> "data", offset |-> offset, header |-> header, def_mesg |-> def_mesg,
     fields |-> fields]

\* the None that _parse_message returns at the end of the stream
NoMessage == [type |-> "none"]

\* DefinitionMessage.name, DataMessage.name
MessageName(m) ==
    LET Name(d) == IF d.mesg_type # None THEN d.mesg_type.name ELSE "unknown"
    IN  Name(IF m.type = "data" THEN m.def_mesg ELSE m)

(***************************************************************************)
(* base.py: DeveloperDataMixin                                             *)
(***************************************************************************)
\* DeveloperDataMixin._append_dev_data_id
append_dev_data_id(s, dev_data_index, application_id, fields) ==
    [s EXCEPT !.dev_types =
        DictSet(@, dev_data_index,
                [dev_data_index |-> dev_data_index, application_id |-> application_id,
                 fields |-> fields])]

\* the check both _append_dev_field_description and get_dev_type start with:
\* an unknown dev_data_index raises, or warns and registers an empty type
ensure_dev_data_id(s, dev_data_index) ==
    IF dev_data_index \notin DOMAIN s.dev_types
    THEN IF check_developer_data THEN Raise(s, "FitParseError")
         ELSE append_dev_data_id(Warn(s, "dev type missing"), dev_data_index, None,
                                 EmptyDict)
    ELSE s

\* DeveloperDataMixin._append_dev_field_description with the default name,
\* units and native_field_num
append_dev_field_description(s, dev_data_index, field_def_num, type) ==
    Then(ensure_dev_data_id(s, dev_data_index),
         LAMBDA s1 : [s1 EXCEPT !.dev_types[dev_data_index].fields =
                         DictSet(@, field_def_num,
                                 DevField(dev_data_index, field_def_num, type,
                                          None, None))])

\* message.get_raw_value(field_name): DataMessage defines get, get_value and
\* get_values, and neither it nor RecordBase defines get_raw_value, so the
\* attribute lookup raises AttributeError
get_raw_value(message, field_name) == Raised("AttributeError")

\* DeveloperDataMixin.add_dev_data_id; _append_dev_data_id is called without
\* fields, which makes the fields of the entry an empty dict
add_dev_data_id(s, message) ==
    LET Add(dev_data_index, application_id) ==
            IF dev_data_index.t = "raise" THEN Raise(s, dev_data_index.v)
            ELSE IF application_id.t = "raise" THEN Raise(s, application_id.v)
            ELSE append_dev_data_id(s, dev_data_index.v, application_id, EmptyDict)
    IN  Add(get_raw_value(message, "developer_data_index"),
            get_raw_value(message, "application_id"))

\* DeveloperDataMixin.add_dev_field_description (field_name, units and
\* native_field_num are looked up after the three values modelled here);
\* BASE_TYPES[base_type_id] raises KeyError for an identifier that is no key
add_dev_field_description(s, message) ==
    LET Install(s1, dev_data_index, field_def_num, base_type_id) ==
            IF base_type_id \notin BaseTypeIds THEN Raise(s1, "KeyError")
            ELSE [s1 EXCEPT !.dev_types[dev_data_index].fields =
                     DictSet(@, field_def_num,
                             DevField(dev_data_index, field_def_num,
                                      BASE_TYPES(base_type_id), None, None))]
        Add(dev_data_index, field_def_num, base_type_id) ==
            IF dev_data_index.t = "raise" THEN Raise(s, dev_data_index.v)
            ELSE IF field_def_num.t = "raise" THEN Raise(s, field_def_num.v)
            ELSE IF base_type_id.t = "raise" THEN Raise(s, base_type_id.v)
            ELSE Then(ensure_dev_data_id(s, dev_data_index.v),
                      LAMBDA s1 : Install(s1, dev_data_index.v, field_def_num.v,
                                          base_type_id.v))
    IN  Add(get_raw_value(message, "developer_data_index"),
            get_raw_value(message, "field_definition_number"),
            get_raw_value(message, "fit_base_type_id"))

\* DeveloperDataMixin.get_dev_type; the DevField is returned in .ret
get_dev_type(s, dev_data_index, field_def_num) ==
    LET Lookup(s1) ==
            IF field_def_num \notin DOMAIN s1.dev_types[dev_data_index].fields
            THEN IF check_developer_data THEN Raise(s1, "FitParseError")
                 ELSE append_dev_field_description(Warn(s1, "dev field missing"),
                                                   dev_data_index, field_def_num,
                                                   BASE_TYPE_BYTE)
            ELSE s1
    IN  Then(ensure_dev_data_id(s, dev_data_index),
             LAMBDA s1 : Then(Lookup(s1),
                 LAMBDA s2 : [s2 EXCEPT !.ret =
                                 s2.dev_types[dev_data_index].fields[field_def_num]]))

(***************************************************************************)
(* base.py: FitFileDecoder, message headers and definition messages        *)
(***************************************************************************)
\* C26 mutant: the local message number of a compressed-timestamp header is
\* read from the low four bits, as in a normal header
parse_message_header_low_bits(s) ==
    LET Decode(s1, header) ==
            IF Bit(header, 7) # 0
            THEN [s1 EXCEPT !.ret =
                     MessageHeader(FALSE, FALSE, LowBits(header, 4),
                                   IntV(LowBits(header, 5)))]
            ELSE [s1 EXCEPT !.ret =
                     MessageHeader(Bit(header, 6) # 0, Bit(header, 5) # 0,
                                   LowBits(header, 4), None)]
    IN  Then(read_struct(s, 1), LAMBDA s1 : Decode(s1, s1.data[1]))

\* FitFileDecoder._parse_message_header; the MessageHeader is returned in .ret
parse_message_header(s) ==
    LET Decode(s1, header) ==
            IF Bit(header, 7) # 0
            THEN [s1 EXCEPT !.ret =
                     MessageHeader(FALSE, FALSE, LowBits(ShiftRight(header, 5), 2),
                                   IntV(LowBits(header, 5)))]
            ELSE [s1 EXCEPT !.ret =
                     MessageHeader(Bit(header, 6) # 0, Bit(header, 5) # 0,
                                   LowBits(header, 4), None)]
    IN  Then(read_struct(s, 1), LAMBDA s1 : Decode(s1, s1.data[1]))

\* C35 mutant: an accumulator that exists is left as it is
RECURSIVE init_accumulators_keep(_, _, _, _)
init_accumulators_keep(s, global_mesg_num, components, i) ==
    IF i > Len(components) THEN s
    ELSE init_accumulators_keep(
             IF /\ components[i].accumulate
                /\ ~(/\ global_mesg_num \in DOMAIN s.accumulators
                     /\ components[i].def_num \in DOMAIN s.accumulators[global_mesg_num])
             THEN [s EXCEPT !.accumulators =
                      DictSet(@, global_mesg_num,
                              DictSet(IF global_mesg_num \in DOMAIN s.accumulators
                                      THEN s.accumulators[global_mesg_num] ELSE EmptyDict,
                                      components[i].def_num, 0))]
             ELSE s,
             global_mesg_num, components, i + 1)

\* the body of FitFileDecoder._parse_definition_message's loop over a
\* field's components: accumulating components start at 0
RECURSIVE init_accumulators(_, _, _, _)
init_accumulators(s, global_mesg_num, components, i) ==
    IF i > Len(components) THEN s
    ELSE init_accumulators(
             IF components[i].accumulate
             THEN [s EXCEPT !.accumulators =
                      DictSet(@, global_mesg_num,
                              DictSet(IF global_mesg_num \in DOMAIN s.accumulators
                                      THEN s.accumulators[global_mesg_num] ELSE EmptyDict,
                                      components[i].def_num, 0))]
             ELSE s,
             global_mesg_num, components, i + 1)

\* the text of the field-size warning names field.name: with field None the
\* formatting raises AttributeError before warnings.warn is called
size_warning(s, field) ==
    IF field = None THEN Raise(s, "AttributeError")
    ELSE Warn(s, "falling back to byte encoding")

\* mesg_type.fields.get(field_def_num) if mesg_type else None
field_get(mesg_type, field_def_num) ==
    IF mesg_type # None /\ field_def_num \in DOMAIN mesg_type.fields
    THEN mesg_type.fields[field_def_num] ELSE None

\* FitFileDecoder._parse_definition_message: the loop over the num_fields
\* field triplets, n of them done; the FieldDefinitions are returned in .ret
RECURSIVE parse_field_defs(_, _, _, _, _, _)
parse_field_defs(s, mesg_type, global_mesg_num, num_fields, n, field_defs) ==
    IF n >= num_fields THEN [s EXCEPT !.ret = field_defs]
    ELSE LET Define(s1, field, field_def_num, field_size, base_type) ==
                 Then(IF (field_size % base_type.size) # 0
                      THEN size_warning(s1, field) ELSE s1,
                      LAMBDA s2 : parse_field_defs(
                          IF field # None
                          THEN init_accumulators(s2, global_mesg_num, field.components, 1)
                          ELSE s2,
                          mesg_type, global_mesg_num, num_fields, n + 1,
                          Append(field_defs,
                                 FieldDefinition(field, field_def_num,
                                     IF (field_size % base_type.size) # 0
                                     THEN BASE_TYPE_BYTE ELSE base_type,
                                     field_size))))
         IN  Then(read_struct(s, 3),
                  LAMBDA s1 : Define(s1, field_get(mesg_type, s1.data[1]), s1.data[1],
                                     s1.data[2], BaseTypeGet(s1.data[3])))

\* FitFileDecoder._parse_definition_message: the loop over the developer
\* field triplets; the DevFieldDefinitions are returned in .ret
RECURSIVE parse_dev_field_defs(_, _, _, _)
parse_dev_field_defs(s, num_dev_fields, n, dev_field_defs) ==
    IF n >= num_dev_fields THEN [s EXCEPT !.ret = dev_field_defs]
    ELSE Then(read_struct(s, 3),
              LAMBDA s1 : Then(get_dev_type(s1, s1.data[3], s1.data[1]),
                  LAMBDA s2 : parse_dev_field_defs(s2, num_dev_fields, n + 1,
                      Append(dev_field_defs,
                             DevFieldDefinition(s2.ret, s1.data[3], s1.data[1],
                                                s1.data[2])))))

\* C3 mutant: a local message number keeps the first definition bound to it
bind_local_mesg_once(slots, local_mesg_num, def_mesg) ==
    IF local_mesg_num \in DOMAIN slots THEN slots
    ELSE DictSet(slots, local_mesg_num, def_mesg)

\* self._local_mesgs[header.local_mesg_num] = def_mesg
bind_local_mesg(slots, local_mesg_num, def_mesg) ==
    DictSet(slots, local_mesg_num, def_mesg)

\* FitFileDecoder._parse_definition_message; the header byte was read at `offset`
parse_definition_message(s, header, offset) ==
    LET Bind(s5, def_mesg) ==
            [s5 EXCEPT !.local_mesgs =
                           bind_local_mesg(@, header.local_mesg_num, def_mesg),
                       !.ret = def_mesg]
        DevFields(s3, endian, mesg_type, global_mesg_num, field_defs) ==
            IF header.is_developer_data
            THEN Then(read_struct(s3, 1),
                   LAMBDA s4 : Then(parse_dev_field_defs(s4, s4.data[1], 0, << >>),
                       LAMBDA s5 : Bind(s5,
                           DefinitionMessage(offset, header, endian, mesg_type,
                                             global_mesg_num, field_defs, s5.ret))))
            ELSE Bind(s3, DefinitionMessage(offset, header, endian, mesg_type,
                                            global_mesg_num, field_defs, << >>))
        Fields(s2, endian, mesg_type, global_mesg_num, num_fields) ==
            Then(parse_field_defs(s2, mesg_type, global_mesg_num, num_fields, 0, << >>),
                 LAMBDA s3 : DevFields(s3, endian, mesg_type, global_mesg_num, s3.ret))
        Global(s2, endian, global_mesg_num) ==
            Fields(s2, endian, MessageTypeGet(global_mesg_num), global_mesg_num,
                   s2.data[3])
        Endian(s1, endian) ==
            Then(read_struct(s1, 3),
                 LAMBDA s2 : Global(s2, endian,
                                    UnpackUnsigned(SubSeq(s2.data, 1, 2), endian)))
    IN  Then(read_struct(s, 2),
             LAMBDA s1 : Endian(s1, IF s1.data[2] # 0 THEN ">" ELSE "<"))

(***************************************************************************)
(* records.py: the base types' parse functions.  A parse function returns  *)
(* a value, or Raised(exc) when it raises.                                 *)
(***************************************************************************)
Range(seq) == {seq[i] : i \in 1..Len(seq)}

\* the position of the first 0x00 byte: string.index(0x00)
RECURSIVE IndexOfZero(_, _)
IndexOfZero(bytes, i) == IF bytes[i] = 0 THEN i ELSE IndexOfZero(bytes, i + 1)

\* bytes.decode('utf-8', errors='replace') of ASCII text; a byte above 0x7F
\* that starts no valid sequence becomes U+FFFD
DecodeUtf8(bytes) == [i \in 1..Len(bytes) |-> IF bytes[i] < 128 THEN bytes[i] ELSE 65533]

\* records.parse_string: bytes.index raises ValueError when no 0x00 is found
parse_string(bytes) ==
    LET Text(codes) == IF codes = << >> THEN None ELSE StrV(codes)
    IN  IF 0 \notin Range(bytes) THEN Raised("ValueError")
        ELSE Text(DecodeUtf8(SubSeq(bytes, 1, IndexOfZero(bytes, 1) - 1)))

\* BASE_TYPE_BYTE.parse on the tuple of bytes
parse_byte(bytes) ==
    IF \A i \in 1..Len(bytes) : bytes[i] = 255 THEN None
    ELSE TupleV([i \in 1..Len(bytes) |-> IntV(bytes[i])])

\* math.isnan of the float whose big-endian bytes are b
IsNaN(b) ==
    IF Len(b) = 4
    THEN /\ LowBits(b[1], 7) = 127 /\ b[2] >= 128
         /\ (LowBits(b[2], 7) # 0 \/ b[3] # 0 \/ b[4] # 0)
    ELSE /\ LowBits(b[1], 7) = 127 /\ ShiftRight(b[2], 4) = 15
         /\ (LowBits(b[2], 4) # 0 \/ \E i \in 3..8 : b[i] # 0)

\* C17 mutant: the invalid value of every integer type is all bits set
parse_le_ones(base_type, le) ==
    IF base_type.fmt \in {"f", "d"}
    THEN IF IsNaN(Reverse(le)) THEN None ELSE FloatV(Reverse(le))
    ELSE IF \A b \in 1..Len(le) : le[b] = 255 THEN None
    ELSE IF base_type.fmt \in {"b", "h", "i"} THEN IntV(UnpackSigned(le, "<"))
    ELSE IntV(UnpackUnsigned(le, "<"))

\* base_type.parse of one element whose little-endian bytes are le
\* (BaseType._parse for the integer types, the isnan lambdas for the floats)
parse_le(base_type, le) ==
    IF base_type.fmt \in {"f", "d"}
    THEN IF IsNaN(Reverse(le)) THEN None ELSE FloatV(Reverse(le))
    ELSE IF le = base_type.invalid_value THEN None
    ELSE IF base_type.fmt \in {"b", "h", "i"} THEN IntV(UnpackSigned(le, "<"))
    ELSE IntV(UnpackUnsigned(le, "<"))

\* C20 mutant: a two-byte element is unpacked as little-endian whatever the
\* architecture
parse_element_le(base_type, bytes, endian) ==
    parse_le(base_type,
             IF endian = ">" /\ base_type.size # 2 THEN Reverse(bytes) ELSE bytes)

\* struct.unpack of one element followed by base_type.parse
parse_element(base_type, bytes, endian) ==
    parse_le(base_type, IF endian = ">" THEN Reverse(bytes) ELSE bytes)

\* the raw value of one field: _read_struct's unpacking of `count` elements
\* and the per-value or single-value parse that follows it
parse_raw_value(base_type, bytes, endian, count) ==
    IF base_type.name = "string" THEN parse_string(bytes)
    ELSE IF base_type.name = "byte" THEN parse_byte(bytes)
    ELSE IF count > 1
         THEN TupleV([i \in 1..count |->
                        parse_element(base_type,
                            SubSeq(bytes, (i - 1) * base_type.size + 1, i * base_type.size),
                            endian)])
         ELSE parse_element(base_type, bytes, endian)

(***************************************************************************)
(* base.py: FitFileDecoder, data messages                                  *)
(***************************************************************************)
\* C15 mutant: the developer field definitions are left out
AllFieldDefs_regular(def_mesg) == def_mesg.field_defs

\* DefinitionMessage.field_defs + DefinitionMessage.dev_field_defs
AllFieldDefs(def_mesg) == def_mesg.field_defs \o def_mesg.dev_field_defs

\* the number of bytes of the struct format int(size / base_type.size) + fmt
struct_size(field_def) ==
    IF field_def.base_type.fmt = "s" THEN field_def.size \div field_def.base_type.size
    ELSE (field_def.size \div field_def.base_type.size) * field_def.base_type.size

\* FitFileDecoder._parse_raw_values_from_data_message: the loop, i - 1 field
\* definitions done; the raw values are returned in .ret
RECURSIVE parse_raw_values(_, _, _, _)
parse_raw_values(s, def_mesg, i, raw_values) ==
    IF i > Len(AllFieldDefs(def_mesg)) THEN [s EXCEPT !.ret = raw_values]
    ELSE LET Store(s1, raw_value) ==
                 IF raw_value.t = "raise" THEN Raise(s1, raw_value.v)
                 ELSE parse_raw_values(s1, def_mesg, i + 1, Append(raw_values, raw_value))
             Parse(s1, field_def) ==
                 IF s1.err = "FitEOFError"
                 THEN [Warn(s1, "File was terminated unexpectedly")
                          EXCEPT !.err = "none", !.ret = raw_values]
                 ELSE IF Failed(s1) THEN s1
                 ELSE Store(s1, parse_raw_value(field_def.base_type, s1.data,
                                    def_mesg.endian,
                                    field_def.size \div field_def.base_type.size))
         IN  Parse(read_struct(s, struct_size(AllFieldDefs(def_mesg)[i])),
                   AllFieldDefs(def_mesg)[i])

\* C29 mutant: the last sub-field with a matching reference field is taken
resolve_subfield_last(field, def_mesg, raw_values) ==
    LET Matches(sub_field) ==
            \E r \in 1..Len(sub_field.ref_fields) :
                \E j \in 1..Len(raw_values) :
                    /\ j <= Len(def_mesg.field_defs)
                    /\ def_mesg.field_defs[j].def_num = sub_field.ref_fields[r].def_num
                    /\ sub_field.ref_fields[r].raw_value = raw_values[j]
        Last(hits) ==
            IF hits = {} THEN << field, None >>
            ELSE << field.subfields[CHOOSE k \in hits : \A h \in hits : k >= h], field >>
    IN  Last({k \in 1..Len(field.subfields) : Matches(field.subfields[k])})

\* FitFileDecoder._resolve_subfield: (field, parent_field)
resolve_subfield(field, def_mesg, raw_values) ==
    LET Matches(sub_field) ==
            \E r \in 1..Len(sub_field.ref_fields) :
                \E j \in 1..Len(raw_values) :
                    /\ j <= Len(def_mesg.field_defs)
                    /\ def_mesg.field_defs[j].def_num = sub_field.ref_fields[r].def_num
                    /\ sub_field.ref_fields[r].raw_value = raw_values[j]
        First(hits) ==
            IF hits = {} THEN << field, None >>
            ELSE << field.subfields[CHOOSE k \in hits : \A h \in hits : k <= h], field >>
    IN  First({k \in 1..Len(field.subfields) : Matches(field.subfields[k])})

\* C27 mutant: the accumulation never rolls over
apply_compressed_accumulation_no_rollover(raw_value, accumulation, num_bits) ==
    raw_value + (accumulation - LowBits(accumulation, num_bits))

\* FitFileDecoder._apply_compressed_accumulation
apply_compressed_accumulation(raw_value, accumulation, num_bits) ==
    IF raw_value < LowBits(accumulation, num_bits)
    THEN raw_value + (accumulation - LowBits(accumulation, num_bits)) + Pow2(num_bits)
    ELSE raw_value + (accumulation - LowBits(accumulation, num_bits))

\* float(raw_value) / scale
RatioV(n, scale) == [t |-> "ratio", v |-> n, scale |-> scale]

\* float(raw_value) / scale - offset
ShiftedV(n, scale, offset) == [t |-> "shifted", v |-> n, scale |-> scale, offset |-> offset]

\* C32 mutant: the offset is added
apply_scale_offset_adding(field, raw_value) ==
    LET Number(n, scale, offset) ==
            IF scale # 0
            THEN IF offset # 0 THEN ShiftedV(n, scale, 0 - offset) ELSE RatioV(n, scale)
            ELSE IntV(n + offset)
        Scaled(x, scale, offset) ==
            IF x.t = "int" THEN Number(x.v, scale, offset) ELSE x
        Values(value, scale, offset) ==
            IF value.t = "tuple"
            THEN TupleV([i \in 1..Len(value.v) |-> Scaled(value.v[i], scale, offset)])
            ELSE Scaled(value, scale, offset)
        Of(fld, value) == Values(value, fld.scale, fld.offset)
    IN  Of(field, raw_value)

\* FitFileDecoder._apply_scale_offset and ScaleOffsetMixin.apply_scale_offset
\* (scale 0 and offset 0 stand for the falsy None; the fields with a scale
\* hold integers)
apply_scale_offset(field, raw_value) ==
    LET Number(n, scale, offset) ==
            IF scale # 0
            THEN IF offset # 0 THEN ShiftedV(n, scale, offset) ELSE RatioV(n, scale)
            ELSE IntV(n - offset)
        Scaled(x, scale, offset) ==
            IF x.t = "int" THEN Number(x.v, scale, offset) ELSE x
        Values(value, scale, offset) ==
            IF value.t = "tuple"
            THEN TupleV([i \in 1..Len(value.v) |-> Scaled(value.v[i], scale, offset)])
            ELSE Scaled(value, scale, offset)
        Of(fld, value) == Values(value, fld.scale, fld.offset)
    IN  Of(field, raw_value)

\* a name of a FieldType's values dict
EnumV(name) == [t |-> "enum", name |-> name]

\* FieldAndSubFieldBase.render
field_render(field, raw_value) ==
    IF raw_value.t = "int" /\ raw_value.v \in DOMAIN field.type.values
    THEN EnumV(field.type.values[raw_value.v]) ELSE raw_value

\* C30 mutant: the bits are masked without the shift by bit_offset
component_render_unshifted(component, raw_value) ==
    LET RECURSIVE Unpacked(_, _)
        Unpacked(elems, i) ==
            IF i > Len(elems) THEN 0 ELSE elems[i].v + 256 * Unpacked(elems, i + 1)
    IN  IF raw_value.t \in {"tuple", "int"}
        THEN IntV(LowBits(IF raw_value.t = "tuple"
                          THEN Unpacked(raw_value.v, 1) ELSE raw_value.v,
                          component.bits))
        ELSE raw_value

\* ComponentField.render
component_render(component, raw_value) ==
    LET RECURSIVE Unpacked(_, _)
        Unpacked(elems, i) ==
            IF i > Len(elems) THEN 0 ELSE elems[i].v + 256 * Unpacked(elems, i + 1)
    IN  IF raw_value.t \in {"tuple", "int"}
        THEN IntV(LowBits(ShiftRight(IF raw_value.t = "tuple"
                                     THEN Unpacked(raw_value.v, 1) ELSE raw_value.v,
                                     component.bit_offset),
                          component.bits))
        ELSE raw_value

\* C16 mutant: a FieldData is put at the head of the list
field_datas_insert(field_datas, field_data) == << field_data >> \o field_datas

\* field_datas.append(FieldData(...))
field_datas_append(field_datas, field_data) == Append(field_datas, field_data)

\* FitFileDecoder._parse_data_message_components: the loop over a field's
\* components, i - 1 of them done; the FieldData list is returned in .ret
RECURSIVE parse_components(_, _, _, _, _, _, _)
parse_components(s, def_mesg, raw_values, components, raw_value, i, field_datas) ==
    IF i > Len(components) THEN [s EXCEPT !.ret = field_datas]
    ELSE LET Plop(s1, component, cmp_raw_value, resolved) ==
                 parse_components(s1, def_mesg, raw_values, components, raw_value, i + 1,
                     field_datas_append(field_datas,
                            FieldData(0, resolved[1], resolved[2],
                                      field_render(resolved[1],
                                          apply_scale_offset(component, cmp_raw_value)),
                                      apply_scale_offset(component, cmp_raw_value))))
             Resolve(s1, component, cmp_raw_value) ==
                 Plop(s1, component, cmp_raw_value,
                      resolve_subfield(def_mesg.mesg_type.fields[component.def_num],
                                       def_mesg, raw_values))
             Accumulated(component, m, d, cmp_raw_value) ==
                 Resolve([s EXCEPT !.accumulators[m][d] = cmp_raw_value.v], component,
                         cmp_raw_value)
             Rendered(component, m, d, rendered) ==
                 IF component.accumulate /\ rendered # None
                 THEN IF ~(m \in DOMAIN s.accumulators /\ d \in DOMAIN s.accumulators[m])
                      THEN Raise(s, "KeyError")
                      ELSE IF rendered.t # "int" THEN Raise(s, "TypeError")
                      ELSE Accumulated(component, m, d,
                               IntV(apply_compressed_accumulation(
                                        rendered.v, s.accumulators[m][d], component.bits)))
                 ELSE Resolve(s, component, rendered)
         IN  Rendered(components[i], def_mesg.mesg_num, components[i].def_num,
                      component_render(components[i], raw_value))

\* FitFileDecoder._parse_data_message_components: the loop over
\* zip(field_defs + dev_field_defs, raw_values), i - 1 pairs done
RECURSIVE parse_field_datas(_, _, _, _, _)
parse_field_datas(s, def_mesg, raw_values, i, field_datas) ==
    IF i > Len(AllFieldDefs(def_mesg)) \/ i > Len(raw_values)
    THEN [s EXCEPT !.ret = field_datas]
    ELSE LET Plop(s1, field_def, resolved) ==
                 parse_field_datas(
                     IF field_def.def_num = FIELD_TYPE_TIMESTAMP.def_num /\ raw_values[i] # None
                     THEN [s1 EXCEPT !.compressed_ts_accumulator = raw_values[i]]
                     ELSE s1,
                     def_mesg, raw_values, i + 1,
                     field_datas_append(s1.ret,
                            FieldData(i, resolved[1], resolved[2],
                                      IF resolved[1] # None
                                      THEN apply_scale_offset(resolved[1],
                                               field_render(resolved[1], raw_values[i]))
                                      ELSE raw_values[i],
                                      raw_values[i])))
             Resolved(field_def, resolved) ==
                 Then(IF resolved[1] # None /\ resolved[1].components # << >>
                      THEN parse_components(s, def_mesg, raw_values,
                                            resolved[1].components, raw_values[i], 1,
                                            field_datas)
                      ELSE [s EXCEPT !.ret = field_datas],
                      LAMBDA s1 : Plop(s1, field_def, resolved))
             Pair(field_def) ==
                 Resolved(field_def,
                          IF field_def.field # None
                          THEN resolve_subfield(field_def.field, def_mesg, raw_values)
                          ELSE << None, None >>)
         IN  Pair(AllFieldDefs(def_mesg)[i])

\* C4 mutant: a local message number nothing is bound to stands for a
\* definition without fields
local_mesg_get_or_empty(slots, local_mesg_num) ==
    IF local_mesg_num \in DOMAIN slots THEN slots[local_mesg_num]
    ELSE DefinitionMessage(0, MessageHeader(TRUE, FALSE, local_mesg_num, None), "<",
                           None, 0, << >>, << >>)

\* self._local_mesgs.get(header.local_mesg_num)
local_mesg_get(slots, local_mesg_num) ==
    IF local_mesg_num \in DOMAIN slots THEN slots[local_mesg_num] ELSE None

\* utils.fit_to_datetime: UTC_REFERENCE (1989-12-31 00:00:00) plus
\* timedelta(seconds=sec), as the days and seconds after the reference
DateTimeV(sec) == [t |-> "datetime", days |-> sec \div 86400, seconds |-> sec % 86400]

\* datetime.time(h, m, s): ValueError unless 0 <= h < 24 (m and s are
\* remainders of a division by 60)
TimeV(h, m, s) ==
    IF h \in 0..23 THEN [t |-> "time", hour |-> h, minute |-> m, second |-> s]
    ELSE Raised("ValueError")

\* C18 mutant: the value 0x10000000 itself is left as it is
process_type_date_time_above(field_data) ==
    IF field_data.value = None THEN field_data
    ELSE IF field_data.value.t # "int" THEN Raised("TypeError")
    ELSE IF field_data.value.v > 268435456
         THEN [field_data EXCEPT !.value = DateTimeV(field_data.value.v),
                                 !.units = None]
         ELSE field_data

\* FitFileDataProcessor.process_type_date_time: the field_data or Raised(exc);
\* comparing a tuple or a str with an int raises TypeError (no explored
\* stream declares a field of this type with a float base type)
process_type_date_time(field_data) ==
    IF field_data.value = None THEN field_data
    ELSE IF field_data.value.t # "int" THEN Raised("TypeError")
    ELSE IF field_data.value.v >= 268435456
         THEN [field_data EXCEPT !.value = DateTimeV(field_data.value.v),
                                 !.units = None]
         ELSE field_data

\* FitFileDataProcessor.process_type_localtime_into_day
process_type_localtime_into_day(field_data) ==
    LET Set(time) ==
            IF time.t = "raise" THEN time
            ELSE [field_data EXCEPT !.value = time, !.units = None]
    IN  IF field_data.value = None THEN field_data
        ELSE IF field_data.value.t # "int" THEN Raised("TypeError")
        ELSE Set(TimeV((field_data.value.v \div 60) \div 60,
                       (field_data.value.v \div 60) % 60,
                       field_data.value.v % 60))

\* FitFileDataProcessor.run_type_processor: process_type_<field_data.type.name>
\* when the processor has such a method (no modelled field has the types bool
\* or local_date_time); the field and unit processors find no method
run_type_processor(field_data) ==
    IF field_data.field = None THEN field_data
    ELSE IF field_data.field.type.name = "date_time"
         THEN process_type_date_time(field_data)
    ELSE IF field_data.field.type.name = "localtime_into_day"
         THEN process_type_localtime_into_day(field_data)
    ELSE field_data

\* DataProcessorMixin._parse_data_message: the loop over field_datas, i - 1 of
\* them processed
RECURSIVE run_processors(_, _, _)
run_processors(s, field_datas, i) ==
    IF i > Len(field_datas) THEN [s EXCEPT !.ret = field_datas]
    ELSE LET Processed(field_data) ==
                 IF "t" \in DOMAIN field_data THEN Raise(s, field_data.v)
                 ELSE run_processors(s, [field_datas EXCEPT ![i] = field_data], i + 1)
         IN  Processed(run_type_processor(field_datas[i]))

\* FitFileDecoder._parse_data_message_components followed by
\* DataProcessorMixin._parse_data_message
parse_data_message(s, header, offset) ==
    LET Message(s3, def_mesg) ==
            [s3 EXCEPT !.ret = DataMessage(offset, header, def_mesg, s3.ret)]
        Stamp(s2, ts_value) ==
            [s2 EXCEPT !.compressed_ts_accumulator = IntV(ts_value),
                       !.ret = field_datas_append(s2.ret,
                                      FieldData(0, FIELD_TYPE_TIMESTAMP, None,
                                                field_render(FIELD_TYPE_TIMESTAMP,
                                                             IntV(ts_value)),
                                                IntV(ts_value)))]
        Timestamp(s2) ==
            IF header.time_offset = None THEN s2
            ELSE IF s2.compressed_ts_accumulator.t # "int" THEN Raise(s2, "TypeError")
            ELSE Stamp(s2, apply_compressed_accumulation(
                               header.time_offset.v, s2.compressed_ts_accumulator.v, 5))
        Components(def_mesg) ==
            IF def_mesg = None THEN Raise(s, "FitParseError")
            ELSE Then(parse_raw_values(s, def_mesg, 1, << >>),
                   LAMBDA s1 : Then(parse_field_datas(s1, def_mesg, s1.ret, 1, << >>),
                       LAMBDA s2 : Then(Timestamp(s2),
                           LAMBDA s3 : Then(run_processors(s3, s3.ret, 1),
                               LAMBDA s4 : Message(s4, def_mesg)))))
    IN  Components(local_mesg_get(s.local_mesgs, header.local_mesg_num))

(***************************************************************************)
(* base.py: _parse_message.  self._parse_message() is FitFileDecoder's     *)
(* method on an UncachedFitFile and CacheMixin's override on a FitFile;    *)
(* the call FitFileDecoder._parse_message makes on itself after a chained  *)
(* file's header goes through the same dispatch.                           *)
(***************************************************************************)
RECURSIVE parse_message(_)

\* FitFileDecoder._parse_message: what follows _parse_data_message, the
\* message being in .ret
register_dev_data(s) ==
    LET Registered(message, s1) == [s1 EXCEPT !.ret = message]
        Register(message) ==
            IF message.def_mesg.mesg_type = None THEN s
            ELSE IF message.def_mesg.mesg_type.name = "developer_data_id"
                 THEN Registered(message, add_dev_data_id(s, message))
            ELSE IF message.def_mesg.mesg_type.name = "field_description"
                 THEN Registered(message, add_dev_field_description(s, message))
            ELSE s
    IN  Register(s.ret)

\* C12 mutant: _parse_message that takes the end of the stream for the end of
\* the file whatever _bytes_left says
decoder_parse_message_graceful(s) ==
    LET Chained(s1) ==
            IF s1.closed THEN Raise(s1, "AttributeError")
            ELSE IF s1.pos >= Len(file)
                 THEN [close(s1) EXCEPT !.complete = TRUE, !.ret = NoMessage]
            ELSE Then(parse_file_header(s1), LAMBDA s2 : parse_message(s2))
        Record(s1, header, offset) ==
            IF header.is_definition
            THEN parse_definition_message(s1, header, offset)
            ELSE Then(parse_data_message(s1, header, offset), register_dev_data)
    IN  IF ~s.closed /\ s.pos >= Len(file)
        THEN [close(s) EXCEPT !.complete = TRUE, !.ret = NoMessage]
        ELSE IF s.bytes_left <= 0
        THEN Then(IF ~s.complete /\ check_crc THEN read_and_assert_crc(s, FALSE) ELSE s,
                  Chained)
        ELSE Then(parse_message_header(s), LAMBDA s1 : Record(s1, s1.ret, s.pos))

\* FitFileDecoder._parse_message
decoder_parse_message(s) ==
    LET Chained(s1) ==
            IF s1.closed THEN Raise(s1, "AttributeError")
            ELSE IF s1.pos >= Len(file)
                 THEN [close(s1) EXCEPT !.complete = TRUE, !.ret = NoMessage]
            ELSE Then(parse_file_header(s1), LAMBDA s2 : parse_message(s2))
        Record(s1, header, offset) ==
            IF header.is_definition
            THEN parse_definition_message(s1, header, offset)
            ELSE Then(parse_data_message(s1, header, offset), register_dev_data)
    IN  IF s.bytes_left <= 0
        THEN Then(IF ~s.complete /\ check_crc THEN read_and_assert_crc(s, FALSE) ELSE s,
                  Chained)
        ELSE Then(parse_message_header(s), LAMBDA s1 : Record(s1, s1.ret, s.pos))

\* CacheMixin._parse_message
cache_parse_message(s) ==
    Then(decoder_parse_message(s), LAMBDA s1 : [s1 EXCEPT !.messages = Append(@, s1.ret)])

\* self._parse_message(): FitFileDecoder._parse_message, followed on a cached
\* decoder by the append of CacheMixin._parse_message (cache_parse_message)
parse_message(s) ==
    Then(decoder_parse_message(s),
         LAMBDA s1 : IF cached THEN [s1 EXCEPT !.messages = Append(@, s1.ret)] ELSE s1)

\* C1 mutant: _should_yield without the test of message.type
should_yield_any_type(message, with_definitions, names) == message # NoMessage

\* FitFileDecoder._make_set: None, or the set of a name, of a number or of
\* the names and numbers of an iterable (a set of names and a set of numbers)
make_set(obj) ==
    IF obj = None THEN None
    ELSE IF obj.t = "iter" THEN [t |-> "set", names |-> obj.names, nums |-> obj.nums]
    ELSE IF obj.t = "name" THEN [t |-> "set", names |-> {obj.name}, nums |-> {}]
    ELSE [t |-> "set", names |-> {}, nums |-> {obj.num}]

\* C23 mutant: _should_yield that looks for the message's name only
should_yield_by_name(message, with_definitions, names) ==
    /\ message # NoMessage
    /\ (with_definitions \/ message.type = "data")
    /\ (names = None \/ MessageName(message) \in names.names)

\* FitFileDecoder._should_yield
should_yield(message, with_definitions, names) ==
    /\ message # NoMessage
    /\ (with_definitions \/ message.type = "data")
    /\ \/ names = None
       \/ MessageName(message) \in names.names
       \/ (IF message.type = "data" THEN message.def_mesg.mesg_num
           ELSE message.mesg_num) \in names.nums

\* FitFileDecoder.get_messages: the generator's loop, run until it yields
\* (.ret is the message), returns (.ret is NoMessage) or raises
RECURSIVE decoder_get_messages(_, _, _)
decoder_get_messages(s, with_definitions, names) ==
    IF s.complete THEN [s EXCEPT !.ret = NoMessage]
    ELSE Then(parse_message(s),
              LAMBDA s1 : IF should_yield(s1.ret, with_definitions, names) THEN s1
                          ELSE decoder_get_messages(s1, with_definitions, names))

\* CacheMixin.get_messages, first loop: the position of the next cached
\* message to yield after position `index`, 0 when the cache is exhausted
RECURSIVE next_cached(_, _, _, _)
next_cached(cache, index, with_definitions, names) ==
    IF index >= Len(cache) THEN 0
    ELSE IF should_yield(cache[index + 1], with_definitions, names) THEN index + 1
    ELSE next_cached(cache, index + 1, with_definitions, names)

\* CacheMixin.parse
RECURSIVE cache_parse(_)
cache_parse(s) ==
    Then(parse_message(s),
         LAMBDA s1 : IF s1.ret = NoMessage THEN s1 ELSE cache_parse(s1))

(***************************************************************************)
(* The explored inputs.                                                    *)
(***************************************************************************)
\* the record lists of at most n records drawn from kinds
RecLists(kinds, n) == UNION {[1..k -> kinds] : k \in 0..n}

FileDesc(h, r, c) == [hdr |-> h, recs |-> r, crc |-> c]

\* the kinds on local 0: the two definitions and the plain data record
ChainKinds == {1, 2, 5}

\* the kinds of regular and irregular definition records on both local
\* message numbers, and of data records of numbers and of text
MixedKinds == 1..8

\* a single regular file: a few records of the mixed kinds, or more records on
\* local 0
SingleInputs ==
    {<< FileDesc("h14", r, "ok") >> :
        r \in RecLists(MixedKinds, MaxMixedRecs) \cup RecLists(ChainKinds, MaxRecs)}

\* two regular files back to back
ChainedInputs ==
    {<< FileDesc("h14", r1, "ok"), FileDesc("h14", r2, "ok") >> :
        r1 \in RecLists(ChainKinds, MaxChainRecs), r2 \in RecLists(ChainKinds, MaxChainRecs)}

\* a file with one irregularity: in its header or in its trailing CRC
DefectFiles ==
    {FileDesc(h, r, "ok") : h \in HeaderShapes, r \in RecLists({1, 5}, MaxDefectRecs)}
    \cup {FileDesc("h14", r, c) : c \in CrcShapes, r \in RecLists({1, 5}, MaxDefectRecs)}

\* an irregular file, alone or after a regular file
DefectInputs ==
    {<< f >> : f \in DefectFiles}
    \cup {<< FileDesc("h14", << 1, 5 >>, "ok"), f >> : f \in DefectFiles}

Inputs == SingleInputs \cup ChainedInputs \cup DefectInputs

\* the values of check_developer_data explored
DeveloperDataModes == {TRUE}

\* the generator of the last get_messages() call: `stage` is "cache" while
\* CacheMixin.get_messages replays the cache, "parse" while
\* FitFileDecoder.get_messages parses on, "done" once it returned and "raised"
\* once it raised; `index` counts the cached messages passed over
NoGenerator ==
    [active |-> FALSE, with_definitions |-> FALSE, names |-> None, index |-> 0,
     stage |-> "none"]

\* no encoder was made, no function was called
NoEncoder == [t |-> "none"]
NoProbe == [t |-> "none"]

(***************************************************************************)
(* The state before the constructor runs.                                  *)
(***************************************************************************)
\* the decoder before __init__ and the arguments check_crc and cached
InitDecoder ==
    /\ check_crc \in BOOLEAN
    /\ cached \in BOOLEAN
    /\ pc = "new"
    /\ pos = 0
    /\ closed = FALSE
    /\ crc = 0
    /\ bytes_left = -1
    /\ complete = FALSE
    /\ compressed_ts_accumulator = IntV(0)
    /\ accumulators = EmptyDict
    /\ local_mesgs = EmptyDict
    /\ dev_types = EmptyDict
    /\ messages = << >>
    /\ warnings = << >>
    /\ error = "none"
    /\ gen = NoGenerator
    /\ yielded = << >>
    /\ passes = 0

\* a decoder alone: get_messages() is called without a name, there is no
\* encoder and no function is called on its own
OnlyDecoder ==
    /\ name_args = {None}
    /\ enc = NoEncoder
    /\ probe = NoProbe

InitFrom(inputs) ==
    /\ OnlyDecoder
    /\ input \in inputs
    /\ file = EncodeStream(input)
    /\ check_developer_data \in DeveloperDataModes
    /\ InitDecoder

Init == InitFrom(Inputs)

\* the decoder's fields after a call that left the object as s
Commit(s) ==
    /\ pos' = s.pos
    /\ closed' = s.closed
    /\ crc' = s.crc
    /\ bytes_left' = s.bytes_left
    /\ complete' = s.complete
    /\ compressed_ts_accumulator' = s.compressed_ts_accumulator
    /\ accumulators' = s.accumulators
    /\ local_mesgs' = s.local_mesgs
    /\ dev_types' = s.dev_types
    /\ messages' = s.messages
    /\ warnings' = s.warnings
    /\ error' = s.err
    /\ pc' = IF Failed(s) THEN "failed" ELSE "open"

\* an exception leaves __init__ with no decoder, and __del__ closes the stream
close_on_error(s) == IF Failed(s) THEN close(s) ELSE s

\* FitFileDecoder.__init__: open the stream and parse the first file header
Open ==
    /\ pc = "new"
    /\ Commit(close_on_error(parse_file_header(Self)))
    /\ UNCHANGED << name_args, enc, probe, input, file, check_crc, cached, check_developer_data, gen, yielded,
                    passes >>

\* get_messages(name, with_definitions=wd): a new generator; none of its code runs
\* before the first next()
GetMessages(wd, name) ==
    /\ pc = "open"
    /\ ~gen.active
    /\ passes < MaxPasses
    /\ gen' = [active |-> TRUE, with_definitions |-> wd, names |-> make_set(name),
               index |-> 0,
               stage |-> IF cached THEN "cache" ELSE "parse"]
    /\ yielded' = << >>
    /\ passes' = passes + 1
    /\ UNCHANGED << name_args, enc, probe, input, file, check_crc, cached, check_developer_data, pc, pos, closed,
                    crc, bytes_left, complete, compressed_ts_accumulator, accumulators,
                    local_mesgs, dev_types, messages, warnings, error >>

\* next() while CacheMixin.get_messages replays the cache: message j is yielded
Replay(j) ==
    /\ gen' = [gen EXCEPT !.index = j]
    /\ yielded' = Append(yielded, messages[j])
    /\ UNCHANGED << pc, pos, closed, crc, bytes_left, complete,
                    compressed_ts_accumulator, accumulators, local_mesgs,
                    dev_types, messages, warnings, error >>

\* next() in FitFileDecoder.get_messages: s is the decoder after the loop ran
\* to its next yield, its return or an exception
Advance(s) ==
    /\ Commit(s)
    /\ gen' = IF Failed(s) THEN [gen EXCEPT !.active = FALSE, !.stage = "raised"]
              ELSE IF s.ret = NoMessage THEN [gen EXCEPT !.active = FALSE, !.stage = "done"]
              ELSE [gen EXCEPT !.stage = "parse"]
    /\ yielded' = IF Failed(s) \/ s.ret = NoMessage THEN yielded
                  ELSE Append(yielded, s.ret)

\* next() on the generator: CacheMixin.get_messages replays the cache, then
\* FitFileDecoder.get_messages parses on
IterNext ==
    /\ pc = "open"
    /\ gen.active
    /\ IF gen.stage = "cache"
          /\ next_cached(messages, gen.index, gen.with_definitions, gen.names) > 0
       THEN Replay(next_cached(messages, gen.index, gen.with_definitions, gen.names))
       ELSE Advance(decoder_get_messages(Self, gen.with_definitions, gen.names))
    /\ UNCHANGED << name_args, enc, probe, input, file, check_crc, cached, check_developer_data, passes >>

\* CacheMixin.parse
Parse ==
    /\ pc = "open"
    /\ cached
    /\ ~gen.active
    /\ Commit(cache_parse(Self))
    /\ UNCHANGED << name_args, enc, probe, input, file, check_crc, cached, check_developer_data, gen, yielded,
                    passes >>

\* FitFileDecoder.close
Close ==
    /\ pc = "open"
    /\ ~gen.active
    /\ ~closed
    /\ closed' = TRUE
    /\ UNCHANGED << name_args, enc, probe, input, file, check_crc, cached, check_developer_data, pc, pos, crc,
                    bytes_left, complete, compressed_ts_accumulator, accumulators,
                    local_mesgs, dev_types, messages, warnings, error, gen, yielded,
                    passes >>

Next ==
    \/ Open
    \/ \E wd \in BOOLEAN : \E name \in name_args : GetMessages(wd, name)
    \/ IterNext
    \/ Parse
    \/ Close

Spec == Init /\ [][Next]_vars

(***************************************************************************)
(* Truncated streams: a regular stream without its last `cut` bytes.       *)
(***************************************************************************)
\* one file, or a regular file followed by one
TruncatedInputs ==
    {<< FileDesc("h14", r, "ok") >> : r \in RecLists({1, 5}, MaxTruncatedRecs)}
    \cup {<< FileDesc("h14", << 1, 5 >>, "ok"), FileDesc("h14", r, "ok") >> :
             r \in RecLists({1, 5}, MaxTruncatedRecs)}

\* the first n bytes of a stream
Truncate(bytes, n) == SubSeq(bytes, 1, IF n < 0 THEN 0 ELSE n)

InitTruncated ==
    /\ OnlyDecoder
    /\ input \in TruncatedInputs
    /\ \E cut \in 0..MaxCut :
          LET Cut(bytes) == Truncate(bytes, Len(bytes) - cut)
          IN  file = Cut(EncodeStream(input))
    /\ check_developer_data \in DeveloperDataModes
    /\ InitDecoder

SpecTruncated == InitTruncated /\ [][Next]_vars

(***************************************************************************)
(* The layout of a stream, read off the description it was built from:     *)
(* where its files and records lie, and which definition record each data  *)
(* record was laid out by.                                                 *)
(***************************************************************************)
\* the number of bytes of a header of shape hdr
HeaderLen(hdr) ==
    CASE hdr \in {"h12", "h11"} -> 12
      [] hdr = "h13" -> 13
      [] hdr = "h16" -> 16
      [] OTHER -> 14

\* the number of bytes of a file: header, records and trailing CRC
FileLen(f) == HeaderLen(f.hdr) + Len(EncodeBody(f.recs)) + 2

\* the position of the first byte of file k
RECURSIVE FileStart(_, _)
FileStart(files, k) ==
    IF k <= 1 THEN 0 ELSE FileStart(files, k - 1) + FileLen(files[k - 1])

\* the position of the first record of file k
BodyStart(files, k) == FileStart(files, k) + HeaderLen(files[k].hdr)

\* the position of the trailing CRC of file k
BodyEnd(files, k) == BodyStart(files, k) + Len(EncodeBody(files[k].recs))

\* no definition record bound to a local message number
NoBinding == [kind |-> 0, offset |-> -1, fields |-> << >>]

\* one record of the layout: its file, the position of its header byte, its
\* kind, its length, and the kind and position of the definition record bound
\* to its local message number (itself, for a definition record)
LayoutEntry(k, off, kind, len, binding) ==
    [file |-> k, offset |-> off, kind |-> kind, len |-> len,
     def_kind |-> binding.kind, def_offset |-> binding.offset]

\* the layout of the records recs[i..] of file k, the first of them at off
RECURSIVE LayoutRecs(_, _, _, _, _)
LayoutRecs(recs, i, off, bound, k) ==
    IF i > Len(recs) THEN << >>
    ELSE LET Def(r, len) ==
                 << LayoutEntry(k, off, recs[i], len,
                                [kind |-> recs[i], offset |-> off, fields |-> Slots(r)]) >>
                 \o LayoutRecs(recs, i + 1, off + len,
                               [bound EXCEPT ![r.local] =
                                   [kind |-> recs[i], offset |-> off, fields |-> Slots(r)]],
                               k)
             Data(r, len) ==
                 << LayoutEntry(k, off, recs[i], len, bound[r.local]) >>
                 \o LayoutRecs(recs, i + 1, off + len, bound, k)
             Rec(r) ==
                 IF r.k = "def" THEN Def(r, Len(EncodeDef(r)))
                 ELSE Data(r, Len(EncodeData(r, bound[r.local].fields)))
         IN  Rec(RecordKinds[recs[i]])

\* the layout of a stream: its records in stream order
Layout(files) ==
    LET RECURSIVE Files(_)
        Files(k) ==
            IF k > Len(files) THEN << >>
            ELSE LayoutRecs(files[k].recs, 1, BodyStart(files, k),
                            [l \in LocalNums |-> NoBinding], k)
                 \o Files(k + 1)
    IN  Files(1)

\* a definition record every field of which has a size its base type divides
RegularDef(kind) ==
    /\ kind # 0
    /\ \A i \in 1..Len(RecordKinds[kind].fields) :
          LET t == RecordKinds[kind].fields[i]
          IN  /\ t.base_type_id \in BaseTypeIds
              /\ t.size > 0
              /\ t.size % BASE_TYPES(t.base_type_id).size = 0

\* a well-formed stream: regular headers, matching trailing CRCs, regular
\* definition records, and every data record laid out by a definition
\* record of its file
WellFormed(files) ==
    LET Regular(layout) == \A i \in 1..Len(layout) : RegularDef(layout[i].def_kind)
    IN  /\ \A k \in 1..Len(files) :
              /\ files[k].hdr \in {"h14", "h12", "h14zero", "h16"}
              /\ files[k].crc = "ok"
        /\ Regular(Layout(files))

IsData(entry) == RecordKinds[entry.kind].k = "data"

\* the positions of the data records of a stream, in stream order
DataOffsets(files) ==
    LET Offsets(data) == [i \in 1..Len(data) |-> data[i].offset]
    IN  Offsets(SelectSeq(Layout(files), IsData))

\* the positions of the records the last generator yielded messages for
YieldedOffsets == [i \in 1..Len(yielded) |-> yielded[i].offset]

IsPrefix(a, b) == Len(a) <= Len(b) /\ a = SubSeq(b, 1, Len(a))

(***************************************************************************)
(* C1                                                                      *)
(***************************************************************************)
\* C1: the first get_messages() iteration of an uncached decoder over a
\* well-formed stream yields data messages only, one per data record and in
\* stream order; once the iteration is exhausted it has yielded a message for
\* every data record of every file of the stream, the first file's before
\* the second's.
C1_FileOrder ==
    (~cached /\ WellFormed(input) /\ passes = 1 /\ ~gen.with_definitions)
    => /\ \A i \in 1..Len(yielded) : yielded[i].type = "data"
       /\ IsPrefix(YieldedOffsets, DataOffsets(input))
       /\ (gen.stage = "done" => YieldedOffsets = DataOffsets(input))

\* C1 witness: an exhausted iteration over two chained files, with messages
\* of both files yielded
C1_Witness ==
    /\ ~cached /\ WellFormed(input) /\ passes = 1 /\ ~gen.with_definitions
    /\ Len(input) = 2
    /\ gen.stage = "done"
    /\ \E i, j \in 1..Len(yielded) :
          /\ i < j
          /\ yielded[i].offset < FileStart(input, 2)
          /\ yielded[j].offset > FileStart(input, 2)

(***************************************************************************)
(* C2                                                                      *)
(***************************************************************************)
\* the positions of all the records of a stream, in stream order
RecordOffsets(files) ==
    LET Offsets(layout) == [i \in 1..Len(layout) |-> layout[i].offset]
    IN  Offsets(Layout(files))

\* the messages of the cache, without the None stored at the end of the stream
CachedMessages == SelectSeq(messages, LAMBDA m : m # NoMessage)

\* C2: the cache of a FitFile holds every parsed message once, in stream
\* order, and a full get_messages(with_definitions=True) iteration over a
\* well-formed stream, the first or a later one replayed from the cache, yields
\* one message per record in stream order, as an uncached decoder does.
C2_CacheTransparent ==
    cached
    => /\ \A i, j \in 1..Len(CachedMessages) :
              i < j => CachedMessages[i].offset < CachedMessages[j].offset
       /\ (WellFormed(input) /\ gen.with_definitions /\ gen.stage = "done")
          => YieldedOffsets = RecordOffsets(input)

\* C2 witness: a later full iteration that replays a cache holding the first
\* message of a chained file twice
C2_Witness ==
    /\ cached /\ WellFormed(input) /\ Len(input) = 2
    /\ passes = 2 /\ gen.with_definitions /\ gen.stage = "done"
    /\ \E i \in 1..(Len(yielded) - 1) : yielded[i] = yielded[i + 1]

(***************************************************************************)
(* C3                                                                      *)
(***************************************************************************)
\* the data messages emitted so far: yielded by the last generator or cached
EmittedData ==
    {m \in Range(yielded) \cup Range(messages) : m # NoMessage /\ m.type = "data"}

\* message m was decoded with the definition record the layout binds to the
\* local message number of the data record at m's position
DecodedByBoundDefinition(m, layout) ==
    \E i \in 1..Len(layout) :
        /\ layout[i].offset = m.offset
        /\ IsData(layout[i])
        /\ layout[i].def_kind # 0
        /\ m.def_mesg.offset = layout[i].def_offset
        /\ m.def_mesg.header.local_mesg_num = RecordKinds[layout[i].kind].local
        /\ m.def_mesg.mesg_num = RecordKinds[layout[i].def_kind].mesg_num
        /\ Len(m.def_mesg.field_defs) = Len(RecordKinds[layout[i].def_kind].fields)

\* C3: every data message emitted, however many definitions were bound to its
\* local message number before or after it, holds the definition message
\* most recently bound to that number before the data record in its file.
C3_LatestDefinition ==
    LET Holds(layout) == \A m \in EmittedData : DecodedByBoundDefinition(m, layout)
    IN  Holds(Layout(input))

\* C3 witness: two data messages of one file and one local message number,
\* the second decoded with a definition that replaced the first one's
C3_Witness ==
    \E i, j \in 1..Len(yielded) :
        /\ i < j
        /\ yielded[i].type = "data" /\ yielded[j].type = "data"
        /\ yielded[i].header.local_mesg_num = yielded[j].header.local_mesg_num
        /\ yielded[i].def_mesg.offset < yielded[j].def_mesg.offset
        /\ yielded[i].offset < yielded[j].def_mesg.offset
        /\ Len(input) = 1

(***************************************************************************)
(* C4                                                                      *)
(***************************************************************************)
\* the messages emitted so far: yielded by the last generator or cached
Emitted == {m \in Range(yielded) \cup Range(messages) : m # NoMessage}

\* a data record whose local message number no definition record of its file
\* was bound to before it
Unbound(entry) == IsData(entry) /\ entry.def_kind = 0

\* C4: no message is emitted for a data record, of either header form, whose
\* local message number has no definition bound in its file, and the decoder
\* that has read the header byte of such a record has raised FitParseError.
C4_UnboundLocal ==
    LET Holds(layout) ==
            \A i \in 1..Len(layout) :
                Unbound(layout[i])
                => /\ \A m \in Emitted : m.offset # layout[i].offset
                   /\ (pos = layout[i].offset + 1
                       => error = "FitParseError" /\ pc = "failed")
    IN  Holds(Layout(input))

\* C4 witness: FitParseError at a compressed-timestamp record with an unbound
\* local message number, after other records of the file were decoded
C4_Witness ==
    LET Reached(layout) ==
            \E i \in 1..Len(layout) :
                /\ Unbound(layout[i])
                /\ RecordKinds[layout[i].kind].compressed
                /\ i > 1
                /\ pos = layout[i].offset + 1
                /\ error = "FitParseError"
    IN  Reached(Layout(input))

(***************************************************************************)
(* C5                                                                      *)
(***************************************************************************)
IsDef(entry) == RecordKinds[entry.kind].k = "def"

\* the decoder stands in the body of the second file of the stream
InSecondFile == Len(input) = 2 /\ pc = "open" /\ pos >= BodyStart(input, 2)

\* no data record of file k was decoded yet
NoDataDecoded(layout, k) ==
    \A i \in 1..Len(layout) :
        (layout[i].file = k /\ IsData(layout[i])) => layout[i].offset >= pos

\* the per-file state holds nothing of the first file
SecondFileState(layout) ==
    /\ \A l \in DOMAIN local_mesgs : local_mesgs[l].offset >= BodyStart(input, 2)
    /\ \A m \in DOMAIN accumulators :
          \E i \in 1..Len(layout) :
              /\ layout[i].file = 2 /\ IsDef(layout[i]) /\ layout[i].offset < pos
              /\ RecordKinds[layout[i].kind].mesg_num = m
    /\ NoDataDecoded(layout, 2)
       => /\ compressed_ts_accumulator = IntV(0)
          /\ \A m \in DOMAIN accumulators :
                \A d \in DOMAIN accumulators[m] : accumulators[m][d] = 0
    /\ check_crc
       => crc = CrcCalculate(SubSeq(file, FileStart(input, 2) + 1, pos), 0)

\* a data record of the second file whose local message number was bound in
\* the first file only
BoundInFirstFileOnly(layout, i) ==
    /\ layout[i].file = 2
    /\ Unbound(layout[i])
    /\ \E j \in 1..Len(layout) :
          /\ layout[j].file = 1 /\ IsDef(layout[j])
          /\ RecordKinds[layout[j].kind].local = RecordKinds[layout[i].kind].local

\* C5: a decoder that went on into a chained file holds only definitions
\* bound in that file, accumulators started by that file's definitions, a
\* compressed-timestamp accumulator and component accumulators of 0 until the
\* file's first data record, and a CRC computed from that file's first byte;
\* reading a data record of it whose local message number was defined in the
\* first file only raises FitParseError.
C5_ChainedReset ==
    LET Holds(layout) ==
            /\ InSecondFile => SecondFileState(layout)
            /\ \A i \in 1..Len(layout) :
                  (BoundInFirstFileOnly(layout, i) /\ pos = layout[i].offset + 1)
                  => error = "FitParseError"
    IN  Holds(Layout(input))

\* C5 witness: the decoder in the second file before any of its data records,
\* the first file having bound definitions and set both kinds of accumulator
C5_Witness ==
    LET Reached(layout) ==
            /\ InSecondFile /\ NoDataDecoded(layout, 2) /\ ~complete
            /\ local_mesgs # EmptyDict
            /\ \E i, j \in 1..Len(layout) :
                  /\ layout[i].file = 1 /\ layout[i].kind = 2
                  /\ layout[j].file = 1 /\ IsData(layout[j]) /\ i < j
    IN  Reached(Layout(input))

\* C5 witness of the consequence: FitParseError at a data record of the second
\* file whose local message number was bound in the first file only
C5_WitnessUnbound ==
    LET Reached(layout) ==
            \E i \in 1..Len(layout) :
                /\ BoundInFirstFileOnly(layout, i)
                /\ pos = layout[i].offset + 1
                /\ error = "FitParseError"
    IN  Reached(Layout(input))

(***************************************************************************)
(* C6                                                                      *)
(***************************************************************************)
\* the two bytes that follow the body of file k, little-endian
StoredFileCrc(k) ==
    UnpackUnsigned(SubSeq(file, BodyEnd(input, k) + 1, BodyEnd(input, k) + 2), "<")

\* the CRC of every byte of file k before its trailing CRC
ComputedFileCrc(k) ==
    CrcCalculate(SubSeq(file, FileStart(input, k) + 1, BodyEnd(input, k)), 0)

\* C6: with check_crc, a decoder that has read the two bytes after the body of
\* a file (the first or a chained one) whose value differs from the CRC of
\* all the file's bytes before them, a stored 0 included, has raised
\* FitCRCError on reading them; it has not when the two values are equal.
C6_TrailingCrc ==
    check_crc
    => \A k \in 1..Len(input) :
          LET Holds(end, stored, computed) ==
                  /\ stored # computed => (error = "FitCRCError" /\ pos = end)
                  /\ (stored = computed /\ pos = end) => error # "FitCRCError"
          IN  pos >= BodyEnd(input, k) + 2
              => Holds(BodyEnd(input, k) + 2, StoredFileCrc(k), ComputedFileCrc(k))

\* C6 witness: FitCRCError at the zero trailing CRC of the second file of a
\* chained stream
C6_Witness ==
    /\ check_crc /\ Len(input) = 2 /\ input[2].crc = "zero"
    /\ pos = BodyEnd(input, 2) + 2
    /\ StoredFileCrc(2) = 0
    /\ error = "FitCRCError"

(***************************************************************************)
(* C7                                                                      *)
(***************************************************************************)
\* the header_size byte of file k
HeaderSizeByte(k) == file[FileStart(input, k) + 1]

\* bytes 8..11 of the header of file k are ".FIT"
HasMagic(k) ==
    SubSeq(file, FileStart(input, k) + 9, FileStart(input, k) + 12) = << 46, 70, 73, 84 >>

\* the two bytes at offset 12 of file k, little-endian
StoredHeaderCrc(k) ==
    UnpackUnsigned(SubSeq(file, FileStart(input, k) + 13, FileStart(input, k) + 14), "<")

\* the CRC of the first 12 bytes of file k
ComputedHeaderCrc(k) ==
    CrcCalculate(SubSeq(file, FileStart(input, k) + 1, FileStart(input, k) + 12), 0)

\* the position follows a record of file k
AtRecordEnd(layout, k) ==
    \E i \in 1..Len(layout) :
        layout[i].file = k /\ pos = layout[i].offset + layout[i].len

\* C7: with check_crc, a decoder that has read the bytes at offset 12 of a
\* header with header_size >= 14 has raised FitCRCError there when their
\* value is neither 0 nor the CRC of the first 12 bytes, and has not when it
\* is one of the two; after a header with header_size = 12 the decoder reads
\* records from offset 12 on.
C7_HeaderCrc ==
    check_crc
    => \A k \in 1..Len(input) :
          LET Checked(at, stored, computed) ==
                  /\ stored \notin {0, computed}
                     => (error = "FitCRCError" /\ pos = at)
                  /\ (stored \in {0, computed} /\ pos = at) => error # "FitCRCError"
              NotRead(layout) ==
                  (pc = "open" /\ pos <= BodyEnd(input, k))
                  => (pos = FileStart(input, k) + 12 \/ AtRecordEnd(layout, k))
          IN  /\ (HasMagic(k) /\ HeaderSizeByte(k) >= 14
                  /\ pos >= FileStart(input, k) + 14)
                 => Checked(FileStart(input, k) + 14, StoredHeaderCrc(k),
                            ComputedHeaderCrc(k))
              /\ (HasMagic(k) /\ HeaderSizeByte(k) = 12
                  /\ pos >= FileStart(input, k) + 12)
                 => NotRead(Layout(input))

\* C7 witness: a chained file with a zero header CRC read to its end
C7_Witness ==
    /\ check_crc /\ Len(input) = 2 /\ input[2].hdr = "h14zero"
    /\ StoredHeaderCrc(2) = 0 /\ ComputedHeaderCrc(2) # 0
    /\ input[2].recs # << >>
    /\ complete /\ error = "none"

\* C7 witnesses of the other two cases: a wrong nonzero header CRC, and a
\* 12-byte header followed by records
C7_WitnessBad ==
    /\ check_crc /\ input[1].hdr = "h14bad" /\ pos = 14 /\ error = "FitCRCError"

C7_WitnessNoCrc ==
    /\ check_crc /\ Len(input) = 2 /\ input[2].hdr = "h12"
    /\ input[2].recs # << >> /\ complete /\ error = "none"

(***************************************************************************)
(* C8                                                                      *)
(***************************************************************************)
\* the header of file k is one that _parse_file_header is to reject
IrregularHeader(k) == ~HasMagic(k) \/ HeaderSizeByte(k) < 12 \/ HeaderSizeByte(k) = 13

\* C8: a decoder that has read the 12 header bytes of a file, the first or a
\* chained one, whose magic is not ".FIT" or whose header_size is below 12 or
\* is 13, has raised FitHeaderError.
C8_HeaderRejected ==
    \A k \in 1..Len(input) :
        (IrregularHeader(k) /\ pos >= FileStart(input, k) + 12 /\ pc # "new")
        => error = "FitHeaderError"

\* C8 witness: a header with header_size 11 accepted, records read after it
C8_Witness ==
    /\ HeaderSizeByte(1) = 11 /\ HasMagic(1)
    /\ pc = "open" /\ pos > 12 /\ yielded # << >>

(***************************************************************************)
(* C9                                                                      *)
(***************************************************************************)
\* field triplet t declares a size its base type's size does not divide
Mismatched(t) == (t.size % BaseTypeGet(t.base_type_id).size) # 0

\* the number of mismatched triplets of the definition records that start
\* before position p
RECURSIVE MismatchesBefore(_, _, _)
MismatchesBefore(layout, i, p) ==
    IF i > Len(layout) THEN 0
    ELSE (IF IsDef(layout[i]) /\ layout[i].offset < p
          THEN Cardinality({j \in 1..Len(RecordKinds[layout[i].kind].fields) :
                               Mismatched(RecordKinds[layout[i].kind].fields[j])})
          ELSE 0)
         + MismatchesBefore(layout, i + 1, p)

\* definition message m holds every mismatched triplet of record kind `kind`
\* as a byte field of the declared size
DegradedToBytes(m, kind) ==
    /\ Len(m.field_defs) = Len(RecordKinds[kind].fields)
    /\ \A j \in 1..Len(m.field_defs) :
          Mismatched(RecordKinds[kind].fields[j])
          => /\ m.field_defs[j].base_type = BASE_TYPE_BYTE
             /\ m.field_defs[j].size = RecordKinds[kind].fields[j].size

\* C9: the decoder never raises while it reads a definition record that has a
\* mismatched field triplet, whether the profile knows the message and the
\* field or not; the definition message it builds holds the field as bytes of
\* the declared size; and a decoder that has not raised has warned once per
\* mismatched triplet read.
C9_MismatchDegrades ==
    LET Holds(layout) ==
            /\ \A i \in 1..Len(layout) :
                  (IsDef(layout[i]) /\ ~RegularDef(layout[i].kind))
                  => /\ (layout[i].offset < pos /\ pos <= layout[i].offset + layout[i].len)
                        => error = "none"
                     /\ \A m \in Emitted :
                           (m.type = "definition" /\ m.offset = layout[i].offset)
                           => DegradedToBytes(m, layout[i].kind)
            /\ pc = "open" => Len(warnings) = MismatchesBefore(layout, 1, pos)
    IN  Holds(Layout(input))

\* C9 witness: AttributeError inside a definition record of a message unknown
\* to the profile, at its mismatched triplet
C9_Witness ==
    LET Reached(layout) ==
            \E i \in 1..Len(layout) :
                /\ layout[i].kind = 4
                /\ layout[i].offset < pos /\ pos <= layout[i].offset + layout[i].len
                /\ error = "AttributeError"
    IN  Reached(Layout(input))

(***************************************************************************)
(* C10                                                                     *)
(***************************************************************************)
\* the positions among the field triplets of record kind `kind` of the string
\* fields
StringFields(kind) ==
    {j \in 1..Len(RecordKinds[kind].fields) :
        /\ ~Mismatched(RecordKinds[kind].fields[j])
        /\ BaseTypeGet(RecordKinds[kind].fields[j].base_type_id).name = "string"}

\* a data record whose string fields hold no 0x00 byte
Unterminated(entry) ==
    /\ IsData(entry) /\ entry.def_kind # 0
    /\ RecordKinds[entry.kind].fill = "text"
    /\ StringFields(entry.def_kind) # {}

\* data message m holds, for every string field, the text of all the
\* declared bytes
WholeText(m, entry) ==
    \A j \in StringFields(entry.def_kind) :
        \E f \in 1..Len(m.fields) :
            /\ m.fields[f].field_def = j
            /\ m.fields[f].raw_value =
                  StrV(DecodeUtf8(FieldBytes(RecordKinds[entry.def_kind].fields[j].size,
                                             "text")))

\* C10: once the decoder has read a data record whose string field holds no
\* 0x00 byte, the message of that record has been emitted (no exception was
\* raised decoding it) and holds the text of the field's whole declared length.
C10_UnterminatedString ==
    LET Holds(layout) ==
            \A i \in 1..Len(layout) :
                (Unterminated(layout[i]) /\ (cached \/ passes = 1)
                 /\ pos >= layout[i].offset + layout[i].len)
                => \E m \in EmittedData :
                      m.offset = layout[i].offset /\ WholeText(m, layout[i])
    IN  Holds(Layout(input))

\* C10 witness: ValueError at the end of a data record with an unterminated
\* string field
C10_Witness ==
    LET Reached(layout) ==
            \E i \in 1..Len(layout) :
                /\ Unterminated(layout[i])
                /\ pos = layout[i].offset + layout[i].len
                /\ error = "ValueError"
    IN  Reached(Layout(input))

(***************************************************************************)
(* C11                                                                     *)
(***************************************************************************)
\* the stream ends inside the body of file k: its header is whole and fewer
\* bytes follow it than its data_size announces
EndsInBody(k) ==
    /\ BodyStart(input, k) <= Len(file)
    /\ Len(file) < BodyEnd(input, k)

\* the stream ends inside one of the data records of file k, after its
\* header byte
EndsInDataRecord(layout, k) ==
    \E i \in 1..Len(layout) :
        /\ layout[i].file = k /\ IsData(layout[i])
        /\ layout[i].offset < Len(file)
        /\ Len(file) < layout[i].offset + layout[i].len

\* C11: on a stream that ends inside the body of a file the decoder raises no
\* FitEOFError, and once it has read up to the end of the stream it has
\* warned.
C11_GracefulEof ==
    \A k \in 1..Len(input) :
        EndsInBody(k)
        => /\ error # "FitEOFError"
           /\ (pos = Len(file) /\ pc # "new") => warnings # << >>

\* C11 witness: the warning of a data record cut short, followed by the
\* FitEOFError of the next read
C11_Witness ==
    LET Reached(layout) ==
            /\ \E k \in 1..Len(input) : EndsInBody(k) /\ EndsInDataRecord(layout, k)
            /\ warnings = << "File was terminated unexpectedly" >>
            /\ error = "FitEOFError"
            /\ pos = Len(file)
    IN  Reached(Layout(input))

(***************************************************************************)
(* C12                                                                     *)
(***************************************************************************)
\* the stream is a well-formed one that lacks bytes a header of it announces;
\* a chained stream is read up to its second file with check_crc only
AnnouncedBytesMissing ==
    /\ \E k \in 1..Len(input) :
          FileStart(input, k) < Len(file) /\ Len(file) < BodyEnd(input, k)
    /\ WellFormed(input)
    /\ (check_crc \/ Len(input) = 1)

DeveloperKinds == {1, 2, 5, 6, 9, 10, 11, 12}

DeveloperInputs ==
    {<< FileDesc("h14", r, "ok") >> : r \in RecLists(DeveloperKinds, MaxDeveloperRecs)}

InitDeveloper ==
    /\ OnlyDecoder
    /\ input \in DeveloperInputs
    /\ file = EncodeStream(input)
    /\ check_developer_data \in BOOLEAN
    /\ InitDecoder

SpecDeveloper == InitDeveloper /\ [][Next]_vars

\* the decoder has read the record of a layout entry and no byte after it
StandsAfter(entry) == pos = entry.offset + entry.len

\* a data record laid out by the definition record of kind def_kind
DataOf(entry, def_kind) == IsData(entry) /\ entry.def_kind = def_kind

\* the developer field (0, 0) that the definition record 9 refers to is in
\* the registry
FieldRegistered ==
    /\ 0 \in DOMAIN dev_types
    /\ 0 \in DOMAIN dev_types[0].fields

(***************************************************************************)
(* C13                                                                     *)
(***************************************************************************)
\* C13: once the decoder has read a developer_data_id data record for a
\* developer data index whose entry holds a field, it has not failed and the
\* entry still holds that field.  (In the explored streams the record names
\* index 0, and the field is the one a definition record with a developer
\* field registered before it.)
C13_DevDataIdKeepsFields ==
    LET Holds(layout) ==
            \A i \in 1..Len(layout) :
                (/\ DataOf(layout[i], 10)
                 /\ StandsAfter(layout[i])
                 /\ \E j \in 1..(i - 1) : layout[j].kind = 9)
                => /\ error = "none"
                   /\ FieldRegistered
    IN  Holds(Layout(input))

\* a developer_data_id record for the registered index 0 has been read: the
\* decoder failed on it
C13_Witness ==
    LET Reached(layout) ==
            \E i \in 1..Len(layout) :
                /\ DataOf(layout[i], 10)
                /\ StandsAfter(layout[i])
                /\ \E j \in 1..(i - 1) : layout[j].kind = 9
                /\ ~check_developer_data
                /\ FieldRegistered
                /\ error = "AttributeError"
    IN  Reached(Layout(input))

(***************************************************************************)
(* C14                                                                     *)
(***************************************************************************)
\* the outcome C14 states for a lookup of unregistered developer data:
\* FitParseError in strict mode, a warning and no error in lenient mode
StrictOrWarned ==
    IF check_developer_data THEN error = "FitParseError"
    ELSE error = "none" /\ warnings # << >>

\* once the decoder has read a field_description data record whose
\* developer_data_index (0) no earlier record registered, the outcome is
\* StrictOrWarned and, in lenient mode, index 0 has an entry
FieldDescriptionLookup(layout) ==
    \A i \in 1..Len(layout) :
        (/\ DataOf(layout[i], 11)
         /\ StandsAfter(layout[i])
         /\ \A j \in 1..(i - 1) : layout[j].kind # 9)
        => /\ StrictOrWarned
           /\ ~check_developer_data => 0 \in DOMAIN dev_types

\* once the decoder has read a definition record with the developer field
\* triplet (0, 0), the outcome is StrictOrWarned and, in lenient mode, the
\* registry holds a byte-typed field (0, 0) and the warnings are those of the
\* first lookup, however many such records were read
TripletLookup(layout) ==
    \A i \in 1..Len(layout) :
        (layout[i].kind = 9 /\ StandsAfter(layout[i]))
        => /\ StrictOrWarned
           /\ ~check_developer_data
              => /\ FieldRegistered
                 /\ dev_types[0].fields[0].type = BASE_TYPE_BYTE
                 /\ warnings = << "dev type missing", "dev field missing" >>

\* C14: a field_description for an unregistered developer_data_index and a
\* developer field triplet for an unregistered (dev_data_index, def_num) raise
\* FitParseError in strict mode; in lenient mode they warn, install a dummy
\* entry and decoding goes on, a repeated lookup giving no further warning.
C14_UnregisteredDeveloperData ==
    LET Holds(layout) == FieldDescriptionLookup(layout) /\ TripletLookup(layout)
    IN  Holds(Layout(input))

\* the part of C14 about definition records, which holds
C14_TripletLookupHolds ==
    LET Holds(layout) == TripletLookup(layout)
    IN  Holds(Layout(input))

\* a field_description record for the unregistered index 0 has been read in
\* lenient mode: the decoder failed on it without a warning or an entry
C14_Witness ==
    LET Reached(layout) ==
            \E i \in 1..Len(layout) :
                /\ DataOf(layout[i], 11)
                /\ StandsAfter(layout[i])
                /\ \A j \in 1..(i - 1) : layout[j].kind # 9
                /\ ~check_developer_data
                /\ error = "AttributeError"
                /\ warnings = << >>
                /\ dev_types = EmptyDict
    IN  Reached(Layout(input))

\* the second of two definition records with the developer field triplet
\* (0, 0) has been read in lenient mode
C14_WitnessRepeated ==
    LET Reached(layout) ==
            \E i \in 1..Len(layout) :
                /\ layout[i].kind = 9
                /\ StandsAfter(layout[i])
                /\ \E j \in 1..(i - 1) : layout[j].kind = 9
                /\ ~check_developer_data
                /\ error = "none"
    IN  Reached(Layout(input))

(***************************************************************************)
(* C15                                                                     *)
(***************************************************************************)
\* the number of FieldData entries of a data message that carry a field_def
NumDefined(m) == Cardinality({f \in 1..Len(m.fields) : m.fields[f].field_def # 0})

\* C15: every data message emitted for a valid stream has as many FieldData
\* entries with a field_def as its definition message has field definitions,
\* regular and developer ones together.
C15_OneFieldDataPerDefinition ==
    \A m \in EmittedData :
        NumDefined(m) = Len(m.def_mesg.field_defs) + Len(m.def_mesg.dev_field_defs)

\* a data message decoded with one regular and one developer field definition
C15_Witness ==
    \E m \in EmittedData :
        /\ Len(m.def_mesg.field_defs) = 1
        /\ Len(m.def_mesg.dev_field_defs) = 1
        /\ NumDefined(m) = 2

\* a data message with more FieldData entries than field definitions: two
\* components and a synthesized timestamp
C15_WitnessComponents ==
    \E m \in EmittedData :
        /\ Len(m.def_mesg.field_defs) = 2
        /\ Len(m.fields) = 5
        /\ NumDefined(m) = 2

(***************************************************************************)
(* Streams of typed values: one definition record followed by data records *)
(* whose elements are given values (ElementFills), alone or followed by a  *)
(* second file that encodes the same records in the other byte order.      *)
(***************************************************************************)
\* the little-endian definition records of values (their big-endian twin is
\* the next kind), and the definition of time_into_day
ValueDefs == {13, 15, 17, 19}

\* the data records that follow a definition record: 32-bit values stay
\* below 2^31 where they are not the type's invalid value
FillsFor(d) ==
    CASE d = 13 -> {22, 23, 24, 25, 26}
      [] d = 15 -> {23, 24, 25, 27}
      [] d = 17 -> {22, 23, 24, 25, 30, 31, 32, 33}
      [] d = 19 -> {22, 24, 25, 30, 31}
      [] d = 21 -> {22, 24, 27, 28, 29}

\* a file of a definition record d and data records that may follow it
ValueFiles(d, twin) ==
    {FileDesc("h14", << twin >> \o r, "ok") : r \in RecLists(FillsFor(d), MaxValueRecs)}

ValueInputs ==
    UNION {{<< f >> : f \in ValueFiles(d, d) \cup ValueFiles(d, d + 1)} : d \in ValueDefs}
    \cup {<< f >> : f \in ValueFiles(21, 21)}

\* the same records in a little-endian file and in a big-endian file
EndianInputs ==
    UNION {{<< FileDesc("h14", << d >> \o r, "ok"),
               FileDesc("h14", << d + 1 >> \o r, "ok") >> :
               r \in RecLists(FillsFor(d), MaxValueRecs)} : d \in ValueDefs}

InitValues == InitFrom(ValueInputs \cup EndianInputs)

SpecValues == InitValues /\ [][Next]_vars

\* P holds of every data message emitted so far: yielded by the last
\* generator or cached
EveryEmittedData(P(_)) ==
    /\ \A i \in 1..Len(yielded) : yielded[i].type = "data" => P(yielded[i])
    /\ \A i \in 1..Len(messages) : messages[i].type = "data" => P(messages[i])

\* P holds of a data message emitted so far
SomeEmittedData(P(_)) ==
    \/ \E i \in 1..Len(yielded) : yielded[i].type = "data" /\ P(yielded[i])
    \/ \E i \in 1..Len(messages) : messages[i].type = "data" /\ P(messages[i])

(***************************************************************************)
(* C16                                                                     *)
(***************************************************************************)
\* the FieldData entries of the components of the field of entry f stand, in
\* the components' declared order, immediately before entry f
ComponentsBefore(m, f) ==
    LET Before(components) ==
            /\ f > Len(components)
            /\ \A c \in 1..Len(components) :
                  LET Entry(field_data) ==
                          /\ field_data.field_def = 0
                          /\ field_data.field.def_num = components[c].def_num
                          /\ field_data.field.name = components[c].name
                  IN  Entry(m.fields[f - Len(components) + c - 1])
    IN  Before(m.fields[f].field.components)

\* the entries of m that stand for a field definition of a field with
\* components
WithComponents(m) ==
    {f \in 1..Len(m.fields) :
        /\ m.fields[f].field_def # 0
        /\ m.fields[f].field # None
        /\ m.fields[f].field.components # << >>}

\* the last entry of m is the timestamp synthesized from the header
TimestampLast(m) ==
    /\ m.fields # << >>
    /\ m.fields[Len(m.fields)].field_def = 0
    /\ m.fields[Len(m.fields)].field = FIELD_TYPE_TIMESTAMP
    /\ m.fields[Len(m.fields)].parent_field = None

\* the number of entries of m that carry no field_def
NumDerived(m) == Len(m.fields) - NumDefined(m)

\* the number of components of the fields of m's entries
NumComponents(m) ==
    LET RECURSIVE Count(_)
        Count(f) ==
            IF f > Len(m.fields) THEN 0
            ELSE (IF f \in WithComponents(m) THEN Len(m.fields[f].field.components)
                  ELSE 0) + Count(f + 1)
    IN  Count(1)

\* C16: in every emitted data message the entries of a field's components
\* stand in declared order immediately before the field's own entry, the
\* timestamp synthesized from a compressed-timestamp header is the last
\* entry, and the message has no other entry without a field_def.
C16_FieldOrder ==
    LET Ordered(m) ==
            /\ \A f \in WithComponents(m) : ComponentsBefore(m, f)
            /\ m.header.time_offset # None => TimestampLast(m)
            /\ NumDerived(m) = NumComponents(m)
                               + (IF m.header.time_offset # None THEN 1 ELSE 0)
    IN  EveryEmittedData(Ordered)

\* a compressed-timestamp record message: timestamp, distance, the two
\* components, compressed_speed_distance, speed and the synthesized timestamp
C16_Witness ==
    LET Reached(m) ==
            /\ m.header.time_offset # None
            /\ Len(m.fields) = 7
            /\ m.fields[3].field.name = "speed" /\ m.fields[3].field_def = 0
            /\ m.fields[4].field.name = "distance" /\ m.fields[4].field_def = 0
            /\ m.fields[5].field.name = "compressed_speed_distance"
            /\ m.fields[7].field = FIELD_TYPE_TIMESTAMP /\ m.fields[7].field_def = 0
    IN  SomeEmittedData(Reached)

(***************************************************************************)
(* C17                                                                     *)
(***************************************************************************)
\* the invalid value C17 gives for a base type, as little-endian bytes
\* (<< >>: the type is not in C17's list)
ClaimedInvalid(name) ==
    CASE name \in {"enum", "uint8"} -> << 255 >>
      [] name = "sint8" -> << 127 >>
      [] name = "sint16" -> << 255, 127 >>
      [] name = "uint16" -> << 255, 255 >>
      [] name = "sint32" -> << 255, 255, 255, 127 >>
      [] name = "uint32" -> << 255, 255, 255, 255 >>
      [] name = "uint8z" -> << 0 >>
      [] name = "uint16z" -> << 0, 0 >>
      [] name = "uint32z" -> << 0, 0, 0, 0 >>
      [] OTHER -> << >>

\* the value C17 gives for one element of an integer type
ClaimedElement(name, le) ==
    IF le = ClaimedInvalid(name) THEN None
    ELSE IF name \in {"sint8", "sint16", "sint32"} THEN IntV(UnpackSigned(le, "<"))
    ELSE IntV(UnpackLE(le))

\* the raw value C17 gives for a field declared by triplet whose elements
\* were filled by `fill`
ClaimedRaw(triplet, fill) ==
    LET Bytes(n) ==
            IF \A b \in 1..n : ElementLE(fill, 1, b) = << 255 >> THEN None
            ELSE TupleV([b \in 1..n |-> IntV(ElementLE(fill, 1, b)[1])])
        Elements(base_type, n) ==
            IF n = 1 THEN ClaimedElement(base_type.name, ElementLE(fill, base_type.size, 1))
            ELSE TupleV([e \in 1..n |->
                           ClaimedElement(base_type.name,
                                          ElementLE(fill, base_type.size, e))])
        Typed(base_type) ==
            IF base_type.name = "byte" THEN Bytes(triplet.size)
            ELSE Elements(base_type, triplet.size \div base_type.size)
    IN  Typed(BASE_TYPES(triplet.base_type_id))

\* values of the same Python type that are equal
SameValue(a, b) == a.t = b.t /\ a = b

\* C17: every field of every emitted data message has the raw value C17
\* gives for the bytes the stream holds (no value for an element equal to its
\* type's invalid value, the element itself otherwise, element by element in
\* a field of several elements, no value for a byte field of 0xFF bytes), and
\* a field without raw value has no value.
C17_InvalidValues ==
    LET Holds(layout) ==
            LET Entry(m, field_data, i) ==
                    /\ SameValue(field_data.raw_value,
                                 ClaimedRaw(RecordKinds[layout[i].def_kind]
                                                .fields[field_data.field_def],
                                            RecordKinds[layout[i].kind].fill))
                    /\ field_data.raw_value = None => field_data.value = None
                Decoded(m) ==
                    \A i \in 1..Len(layout) :
                        layout[i].offset = m.offset
                        => \A f \in 1..Len(m.fields) :
                               m.fields[f].field_def # 0 => Entry(m, m.fields[f], i)
            IN  EveryEmittedData(Decoded)
    IN  Holds(Layout(input))

\* two messages of the twelve integer fields: one whose two-element uint32
\* field holds an invalid first element and 0x04030201, and one of zeros
\* whose enum is 0 and whose uint8z has no value
C17_Witness ==
    LET Mixed(m) ==
            /\ m.def_mesg.mesg_num = 65280 /\ Len(m.fields) = 12
            /\ m.fields[12].raw_value = TupleV(<< None, IntV(67305985) >>)
            /\ m.fields[2].raw_value = IntV(-1)
            /\ m.fields[1].raw_value = None
        Zeros(m) ==
            /\ m.def_mesg.mesg_num = 65280 /\ Len(m.fields) = 12
            /\ m.fields[1].raw_value = IntV(0)
            /\ m.fields[8].raw_value = None
            /\ m.fields[8].value = None
    IN  SomeEmittedData(Mixed) /\ SomeEmittedData(Zeros)

(***************************************************************************)
(* C18                                                                     *)
(***************************************************************************)
\* an entry of a field of type date_time that holds a number of seconds
IsDateTime(field_data) ==
    /\ field_data.field # None
    /\ field_data.field.type.name = "date_time"
    /\ field_data.raw_value.t = "int"

\* the value is the FIT epoch (1989-12-31 00:00:00) plus sec seconds
EpochPlus(value, sec) ==
    /\ value.t = "datetime"
    /\ value.seconds \in 0..86399
    /\ value.days >= 0
    /\ value.days * 86400 + value.seconds = sec

\* C18: in every emitted data message, an entry of a date_time field (the
\* synthesized timestamp included) whose number of seconds is below
\* 0x10000000 has that integer as its value and the units of its field; one
\* whose number is 0x10000000 or more has the FIT epoch plus that many
\* seconds as its value and no units.
C18_DateTime ==
    LET Rendered(field_data) ==
            IF field_data.raw_value.v < 268435456
            THEN /\ field_data.value = field_data.raw_value
                 /\ field_data.units = field_data.field.units
            ELSE /\ EpochPlus(field_data.value, field_data.raw_value.v)
                 /\ field_data.units = None
        Decoded(m) ==
            \A f \in 1..Len(m.fields) : IsDateTime(m.fields[f]) => Rendered(m.fields[f])
    IN  EveryEmittedData(Decoded)

\* a message whose timestamp 0x0FFFFFFF stays a number of seconds with units
\* "s", and a compressed-timestamp message whose timestamp 0x10000000 and
\* synthesized timestamp 0x10000003 are datetimes
C18_Witness ==
    LET Below(m) ==
            /\ m.def_mesg.mesg_num = 20 /\ Len(m.fields) = 6
            /\ m.fields[1].field = FIELD_TYPE_TIMESTAMP
            /\ m.fields[1].value = IntV(268435455)
            /\ m.fields[1].units = StrV(<< 115 >>)
        Synthesized(m) ==
            /\ m.def_mesg.mesg_num = 20 /\ Len(m.fields) = 7
            /\ m.fields[1].field = FIELD_TYPE_TIMESTAMP
            /\ m.fields[1].value = DateTimeV(268435456)
            /\ m.fields[7].field_def = 0
            /\ m.fields[7].raw_value = IntV(268435459)
            /\ m.fields[7].value = DateTimeV(268435459)
            /\ m.fields[7].units = None
    IN  SomeEmittedData(Below) /\ SomeEmittedData(Synthesized)

\* a compressed-timestamp message whose synthesized timestamp stays a number
C18_WitnessSmall ==
    LET Small(m) ==
            /\ m.def_mesg.mesg_num = 20 /\ Len(m.fields) = 7
            /\ m.fields[7].field_def = 0
            /\ m.fields[7].value = IntV(515)
            /\ m.fields[7].units = StrV(<< 115 >>)
    IN  SomeEmittedData(Small)

(***************************************************************************)
(* C19                                                                     *)
(***************************************************************************)
\* an entry of a field of type localtime_into_day that holds a number
IsTimeIntoDay(field_data) ==
    /\ field_data.field # None
    /\ field_data.field.type.name = "localtime_into_day"
    /\ field_data.raw_value.t = "int"

\* the time of day of v seconds after midnight
TimeOfDay(v) ==
    [t |-> "time", hour |-> v \div 3600, minute |-> (v \div 60) % 60, second |-> v % 60]

\* every emitted entry of a localtime_into_day field that Applies to has the
\* time of day Claimed(v) of its number v as value, and no units
TimesRendered(Applies(_), Claimed(_)) ==
    LET Decoded(m) ==
            \A f \in 1..Len(m.fields) :
                (IsTimeIntoDay(m.fields[f]) /\ Applies(m.fields[f].raw_value.v))
                => /\ m.fields[f].value = Claimed(m.fields[f].raw_value.v)
                   /\ m.fields[f].units = None
    IN  EveryEmittedData(Decoded)

\* C19: an entry of a localtime_into_day field with a number v of seconds
\* has the time of day (v div 3600, (v div 60) mod 60, v mod 60) as value
\* when v < 86400 and the last time of day, 23:59:59, when v >= 86400, and
\* no units; reading a record with such a field does not fail with the
\* ValueError of a time of day out of range.
C19_TimeIntoDaySaturates ==
    LET Saturated(v) == IF v < 86400 THEN TimeOfDay(v) ELSE TimeOfDay(86399)
        Every(v) == TRUE
        NoError(layout) ==
            \A i \in 1..Len(layout) :
                (DataOf(layout[i], 21) /\ StandsAfter(layout[i]))
                => error # "ValueError"
    IN  /\ TimesRendered(Every, Saturated)
        /\ NoError(Layout(input))

\* the part of C19 below 86400: the time of day, units cleared
C19_TimeIntoDayBelow ==
    LET Below(v) == v < 86400
    IN  TimesRendered(Below, TimeOfDay)

\* no entry of a localtime_into_day field with 86400 seconds or more is
\* ever emitted
C19_NoneEmittedAbove ==
    LET Above(v) == v >= 86400
        Never(v) == None
    IN  TimesRendered(Above, Never)

\* the decoder has read a record whose time_into_day is 86400 and failed
\* with ValueError
C19_Witness ==
    LET Reached(layout) ==
            \E i \in 1..Len(layout) :
                /\ DataOf(layout[i], 21)
                /\ layout[i].kind = 29
                /\ StandsAfter(layout[i])
                /\ error = "ValueError"
                /\ pc = "failed"
    IN  Reached(Layout(input))

\* a time_into_day of 86399 seconds has been emitted as 23:59:59
C19_WitnessBelow ==
    LET LastSecond(m) ==
            /\ Len(m.fields) = 1
            /\ IsTimeIntoDay(m.fields[1])
            /\ m.fields[1].raw_value = IntV(86399)
            /\ m.fields[1].value = TimeOfDay(86399)
            /\ m.fields[1].units = None
    IN  SomeEmittedData(LastSecond)

(***************************************************************************)
(* C20                                                                     *)
(***************************************************************************)
\* the stream is a little-endian file followed by a big-endian file of the
\* same logical records: definition records of the same local number, global
\* message number and field triplets, followed by the same data records
EndianTwins(files) ==
    /\ Len(files) = 2
    /\ Len(files[1].recs) = Len(files[2].recs)
    /\ Tail(files[1].recs) = Tail(files[2].recs)
    /\ LET Twins(a, b) ==
               /\ a.k = "def" /\ b.k = "def"
               /\ a.endian = "<" /\ b.endian = ">"
               /\ a.local = b.local
               /\ a.mesg_num = b.mesg_num
               /\ a.fields = b.fields
               /\ a.dev_fields = b.dev_fields
       IN  Twins(RecordKinds[Head(files[1].recs)], RecordKinds[Head(files[2].recs)])
    /\ \A i \in 2..Len(files[1].recs) : RecordKinds[files[1].recs[i]].k = "data"

\* FieldData.name of two entries is the same: the name of the field, or
\* unknown_<def_num> of the field definition
SameFieldName(m, a, n, b) ==
    /\ (a.field = None) = (b.field = None)
    /\ a.field # None => a.field.name = b.field.name
    /\ a.field = None =>
          m.def_mesg.field_defs[a.field_def].def_num
              = n.def_mesg.field_defs[b.field_def].def_num

\* two data messages with the same name and, entry by entry, the same field
\* names, raw values, values and units
SameMessage(m, n) ==
    /\ MessageName(m) = MessageName(n)
    /\ m.def_mesg.mesg_num = n.def_mesg.mesg_num
    /\ Len(m.fields) = Len(n.fields)
    /\ \A f \in 1..Len(m.fields) :
          /\ SameFieldName(m, m.fields[f], n, n.fields[f])
          /\ SameValue(m.fields[f].raw_value, n.fields[f].raw_value)
          /\ SameValue(m.fields[f].value, n.fields[f].value)
          /\ SameValue(m.fields[f].units, n.fields[f].units)

\* the messages of emitted (yielded by a generator, or cached) decoded from
\* record a of the first file and from record a of the second are the same
TwinsAgree(layout, emitted) ==
    \A i \in 1..Len(emitted) : \A j \in 1..Len(emitted) :
        (/\ emitted[i].type = "data"
         /\ emitted[j].type = "data"
         /\ \E a \in 1..(Len(layout) \div 2) :
               /\ layout[a].offset = emitted[i].offset
               /\ layout[a + Len(layout) \div 2].offset = emitted[j].offset)
        => SameMessage(emitted[i], emitted[j])

\* C20: when a stream holds a little-endian file and then a big-endian file
\* of the same logical records, the data message decoded from a record of
\* the second file has the same name, field names, raw values, rendered
\* values and units as the one decoded from that record of the first file.
C20_EndianTwinsAgree ==
    LET Holds(layout) == TwinsAgree(layout, yielded) /\ TwinsAgree(layout, messages)
    IN  EndianTwins(input) => Holds(Layout(input))

\* both files of a twin stream have been read to the end, and the last
\* record of each gave a message whose first field is a number above 255
C20_Witness ==
    LET Reached(layout) ==
            /\ pc = "open" /\ error = "none"
            /\ \E i \in 1..Len(yielded) : \E j \in 1..Len(yielded) :
                  /\ yielded[i].type = "data"
                  /\ yielded[j].type = "data"
                  /\ yielded[i].offset = layout[Len(layout) \div 2].offset
                  /\ yielded[j].offset = layout[Len(layout)].offset
                  /\ yielded[i].def_mesg.endian = "<"
                  /\ yielded[j].def_mesg.endian = ">"
                  /\ Len(yielded[j].fields) >= 1
                  /\ yielded[j].fields[1].raw_value.t = "int"
                  /\ yielded[j].fields[1].raw_value.v > 255
                  /\ SameMessage(yielded[i], yielded[j])
    IN  EndianTwins(input) /\ Len(input[1].recs) > 1 /\ Reached(Layout(input))

(***************************************************************************)
(* encoder.py: FitFileEncoder, compressed timestamps                       *)
(***************************************************************************)
\* FitFileEncoder._unapply_compressed_accumulation: max_value is
\* (1 << num_bits) - 1 and max_mask is max_value - 1, a mask without bit 0
unapply_compressed_accumulation(raw_value, accumulation, num_bits) ==
    IF raw_value - accumulation < 0 \/ raw_value - accumulation > Pow2(num_bits) - 1
    THEN Raised("FitParseError")
    ELSE IntV(LowBits(raw_value, num_bits) - (raw_value % 2))

(***************************************************************************)
(* Functions of the library called on their own.  `probe` holds the        *)
(* arguments of one call and, once the call was made, its result.          *)
(***************************************************************************)
\* a header timestamp written by the encoder whose accumulator is
\* `accumulation` and read back by a decoder whose accumulator is the same
RoundTripProbe(accumulation, timestamp) ==
    [t |-> "round_trip", accumulation |-> accumulation, timestamp |-> timestamp,
     called |-> FALSE, time_offset |-> None, result |-> None]

\* _apply_compressed_accumulation(raw_value, accumulation, num_bits)
AccumulationProbe(raw_value, accumulation, num_bits) ==
    [t |-> "accumulate", raw_value |-> raw_value, accumulation |-> accumulation,
     num_bits |-> num_bits, called |-> FALSE, result |-> None]

\* _parse_message_header() of a decoder that stands before the byte header
HeaderProbe(header) ==
    [t |-> "header", header |-> header, called |-> FALSE, result |-> None]

Probes ==
    {RoundTripProbe(a, a + d) : a \in 0..MaxAccumulation, d \in 0..31}
    \cup UNION {{AccumulationProbe(r, a, b) : r \in 0..(Pow2(b) - 1),
                                              a \in 0..MaxAccumulation} :
                b \in 1..MaxBits}
    \cup {HeaderProbe(h) : h \in 0..255}

InitFunctions ==
    /\ probe \in Probes
    /\ input = << >>
    /\ file = IF probe.t = "header" THEN << probe.header >> ELSE << >>
    /\ check_developer_data = TRUE
    /\ name_args = {None}
    /\ enc = NoEncoder
    /\ InitDecoder
    /\ check_crc
    /\ ~cached

\* FitFileEncoder._prepare_compressed_ts writes the time_offset of a header
\* timestamp; FitFileDecoder._parse_data_message_components reads it back
RoundTrip ==
    /\ probe.t = "round_trip"
    /\ ~probe.called
    /\ LET Read(time_offset) ==
               [probe EXCEPT !.called = TRUE, !.time_offset = time_offset,
                    !.result = IF time_offset.t = "raise" THEN time_offset
                               ELSE IntV(apply_compressed_accumulation(
                                             time_offset.v, probe.accumulation, 5))]
       IN  probe' = Read(unapply_compressed_accumulation(probe.timestamp,
                                                         probe.accumulation, 5))
    /\ UNCHANGED << input, file, check_crc, cached, check_developer_data, pc, pos, closed,
                    crc, bytes_left, complete, compressed_ts_accumulator, accumulators,
                    local_mesgs, dev_types, messages, warnings, error, gen, yielded,
                    passes, name_args, enc >>

\* FitFileDecoder._apply_compressed_accumulation
Accumulate ==
    /\ probe.t = "accumulate"
    /\ ~probe.called
    /\ probe' = [probe EXCEPT !.called = TRUE,
                     !.result = IntV(apply_compressed_accumulation(
                                         probe.raw_value, probe.accumulation,
                                         probe.num_bits))]
    /\ UNCHANGED << input, file, check_crc, cached, check_developer_data, pc, pos, closed,
                    crc, bytes_left, complete, compressed_ts_accumulator, accumulators,
                    local_mesgs, dev_types, messages, warnings, error, gen, yielded,
                    passes, name_args, enc >>

\* FitFileDecoder._parse_message_header
ParseMessageHeader ==
    /\ probe.t = "header"
    /\ ~probe.called
    /\ LET Returned(s) ==
               /\ Commit(s)
               /\ probe' = [probe EXCEPT !.called = TRUE,
                                !.result = IF Failed(s) THEN Raised(s.err) ELSE s.ret]
       IN  Returned(parse_message_header(Self))
    /\ UNCHANGED << input, file, check_crc, cached, check_developer_data, gen, yielded,
                    passes, name_args, enc >>

NextFunctions ==
    \/ RoundTrip
    \/ Accumulate
    \/ ParseMessageHeader

SpecFunctions == InitFunctions /\ [][NextFunctions]_vars

(***************************************************************************)
(* C21                                                                     *)
(***************************************************************************)
\* C21: a header timestamp T written by an encoder whose accumulator is A,
\* 0 <= T - A <= 31, and read back by the decoder's compressed accumulation
\* from the accumulator A is T again.
C21_TimestampRoundTrip ==
    (probe.t = "round_trip" /\ probe.called) => probe.result = IntV(probe.timestamp)

\* the part that holds: an even header timestamp is read back
C21_EvenTimestampRoundTrip ==
    (probe.t = "round_trip" /\ probe.called /\ probe.timestamp % 2 = 0)
    => probe.result = IntV(probe.timestamp)

\* the timestamp 1 written from the accumulator 0 has the time_offset 0 and
\* is read back as 0
C21_Witness ==
    /\ probe.t = "round_trip" /\ probe.called
    /\ probe.accumulation = 0 /\ probe.timestamp = 1
    /\ probe.time_offset = IntV(0)
    /\ probe.result = IntV(0)

(***************************************************************************)
(* C26                                                                     *)
(***************************************************************************)
\* h >> n and h & m, bit by bit, for a byte h
HeaderBits(h, lo, n) == (h \div Pow2(lo)) % Pow2(n)

\* C26: for every header byte h, a set bit 7 gives a header with
\* is_definition and is_developer_data false, local_mesg_num = (h >> 5) & 3 and
\* time_offset = h & 0x1F; otherwise is_definition is bit 6, is_developer_data
\* bit 5, local_mesg_num = h & 0x0F and there is no time_offset.  A
\* compressed header has local_mesg_num in 0..3 and time_offset in 0..31.
C26_MessageHeader ==
    LET Decoded(h, header) ==
            IF h >= 128
            THEN /\ header.is_definition = FALSE
                 /\ header.is_developer_data = FALSE
                 /\ header.local_mesg_num = HeaderBits(h, 5, 2)
                 /\ header.time_offset = IntV(HeaderBits(h, 0, 5))
                 /\ header.local_mesg_num \in 0..3
                 /\ header.time_offset.v \in 0..31
            ELSE /\ header.is_definition = (HeaderBits(h, 6, 1) = 1)
                 /\ header.is_developer_data = (HeaderBits(h, 5, 1) = 1)
                 /\ header.local_mesg_num = HeaderBits(h, 0, 4)
                 /\ header.time_offset = None
    IN  (probe.t = "header" /\ probe.called)
        => /\ error = "none"
           /\ pos = 1
           /\ Decoded(probe.header, probe.result)

\* the header byte 0xE7 was decoded: compressed, local message 3, offset 7
C26_Witness ==
    /\ probe.t = "header" /\ probe.called
    /\ probe.header = 231
    /\ probe.result = MessageHeader(FALSE, FALSE, 3, IntV(7))

\* the header byte 0x6F was decoded: a definition with developer data, local
\* message 15
C26_WitnessNormal ==
    /\ probe.t = "header" /\ probe.called
    /\ probe.header = 111
    /\ probe.result = MessageHeader(TRUE, TRUE, 15, None)

(***************************************************************************)
(* C27                                                                     *)
(***************************************************************************)
\* C27: for bits >= 1, accum >= 0 and 0 <= raw < 2^bits the result of
\* _apply_compressed_accumulation(raw, accum, bits) is at least
\* accum - (2^bits - 1), at most accum + 2^bits, and its low `bits` bits are
\* raw; raw = 0, accum = 0x1F, bits = 5 gives 0x20.
C27_CompressedAccumulation ==
    LET Bounded(raw, accum, bits, result) ==
            /\ result >= accum - (Pow2(bits) - 1)
            /\ result <= accum + Pow2(bits)
            /\ result % Pow2(bits) = raw
            /\ (raw = 0 /\ accum = 31 /\ bits = 5) => result = 32
    IN  (probe.t = "accumulate" /\ probe.called)
        => /\ probe.result.t = "int"
           /\ Bounded(probe.raw_value, probe.accumulation, probe.num_bits,
                      probe.result.v)

\* the call with raw = 0, accum = 0x1F, bits = 5 returned 0x20
C27_Witness ==
    /\ probe.t = "accumulate" /\ probe.called
    /\ probe.raw_value = 0 /\ probe.accumulation = 31 /\ probe.num_bits = 5
    /\ probe.result = IntV(32)

(***************************************************************************)
(* encoder.py: FitFileEncoder.  The encoder writes a placeholder header,   *)
(* the records it is given, and on finish() the header and the trailing    *)
(* CRC; the finished stream is then read by a decoder.                     *)
(***************************************************************************)
\* file.write(data) at position `at`: the bytes there are replaced, the
\* stream grows as needed
StreamWrite(bytes, at, data) ==
    [i \in 1..(IF at + Len(data) > Len(bytes) THEN at + Len(data) ELSE Len(bytes)) |->
        IF i > at /\ i <= at + Len(data) THEN data[i - at] ELSE bytes[i]]

\* FitFileEncoder._write
encoder_write(e, data) ==
    IF data = << >> THEN e
    ELSE [e EXCEPT !.file = StreamWrite(e.file, e.at, data),
                   !.at = @ + Len(data),
                   !.bytes_written = @ + Len(data),
                   !.crc = CrcUpdate(@, data)]

\* FitFileEncoder._write_file_header_place
write_file_header_place(e) ==
    [encoder_write([e EXCEPT !.byte_start = e.at], [i \in 1..14 |-> 0])
        EXCEPT !.bytes_written = 0]

\* FitFileEncoder.__init__ (protocol_version 1.0, profile_version 20.33)
NewEncoder ==
    write_file_header_place(
        [t |-> "encoder", file |-> << >>, at |-> 0, byte_start |-> 0,
         bytes_written |-> 0, crc |-> 0, local_mesgs |-> EmptyDict, data_size |-> 0,
         completed |-> FALSE, written |-> 0, error |-> "none"])

\* FitFileEncoder._write_file_header
write_file_header(e) ==
    LET sized == [e EXCEPT !.data_size = e.bytes_written, !.at = e.byte_start]
        data == << 14, 16 >> \o Pack(2033, 2, "<") \o Pack(sized.data_size, 4, "<")
                \o << 46, 70, 73, 84 >>
        headed == encoder_write(encoder_write(sized, data),
                                Pack(CrcCalculate(data, 0), 2, "<"))
    IN  [headed EXCEPT !.at = Len(headed.file)]

\* finish() taking the CRC after the header is written
finish_crc_after_header(e) ==
    IF e.completed THEN e
    ELSE LET headed == write_file_header(e)
         IN  [encoder_write(headed, Pack(headed.crc, 2, "<")) EXCEPT !.completed = TRUE]

\* FitFileEncoder.finish
finish(e) ==
    IF e.completed THEN e
    ELSE LET headed == write_file_header(e)
         IN  [encoder_write(headed, Pack(e.crc, 2, "<")) EXCEPT !.completed = TRUE]

\* FitFileEncoder._write_definition_message: the message header, the
\* reserved and architecture bytes, mesg_num, the field definitions
write_definition_message(e, def_kind) ==
    IF e.local_mesgs = EmptyDict /\ MessageType(RecordKinds[def_kind].mesg_num).name # "file_id"
    THEN [e EXCEPT !.error = "FitParseError"]
    ELSE [encoder_write(e, EncodeDef(RecordKinds[def_kind]))
             EXCEPT !.local_mesgs = DictSet(@, RecordKinds[def_kind].local, def_kind)]

\* FitFileEncoder._write_data_message: the message header and the raw values
\* of the fields of the message's definition
write_data_message(e, mesg) ==
    encoder_write(e, EncodeData(RecordKinds[mesg.data], Slots(RecordKinds[mesg.def_mesg])))

\* a message given to write(): a definition message, or a data message with
\* the definition message it was built from
DefinitionOf(def_kind) == [type |-> "definition", def_mesg |-> def_kind, data |-> 0]
DataOfKind(def_kind, data_kind) == [type |-> "data", def_mesg |-> def_kind, data |-> data_kind]

\* FitFileEncoder.write
encoder_write_message(e, mesg) ==
    IF mesg.type = "definition" THEN write_definition_message(e, mesg.def_mesg)
    ELSE LET local == RecordKinds[mesg.data].local
             defined ==
                 IF local \notin DOMAIN e.local_mesgs \/ e.local_mesgs[local] # mesg.def_mesg
                 THEN write_definition_message(e, mesg.def_mesg)
                 ELSE e
         IN  IF defined.error # "none" THEN defined ELSE write_data_message(defined, mesg)

\* the messages the client writes: file_id and record definitions on local
\* message number 0 and data messages built from them
EncoderMessages ==
    {DefinitionOf(d) : d \in {1, 17}}
    \cup {DataOfKind(d, k) : d \in {1, 17}, k \in {5, 27}}

InitEncoder ==
    /\ enc = NewEncoder
    /\ name_args = {None}
    /\ probe = NoProbe
    /\ input = << >>
    /\ file = << >>
    /\ check_developer_data = TRUE
    /\ InitDecoder

DecoderUnchanged ==
    UNCHANGED << name_args, probe, input, check_crc, cached, check_developer_data, pc,
                 pos, closed, crc, bytes_left, complete, compressed_ts_accumulator,
                 accumulators, local_mesgs, dev_types, messages, warnings, error, gen,
                 yielded, passes >>

\* encoder.write(mesg)
EncoderWrite(mesg) ==
    /\ enc.error = "none"
    /\ ~enc.completed
    /\ enc.written < MaxEncoderWrites
    /\ enc' = [encoder_write_message(enc, mesg) EXCEPT !.written = @ + 1]
    /\ UNCHANGED file
    /\ DecoderUnchanged

\* encoder.finish(); the stream written is the one the decoder is given
EncoderFinish ==
    /\ enc.error = "none"
    /\ ~enc.completed
    /\ enc' = finish(enc)
    /\ file' = enc'.file
    /\ DecoderUnchanged

NextEncoder ==
    \/ \E mesg \in EncoderMessages : EncoderWrite(mesg)
    \/ EncoderFinish
    \/ (enc.completed /\ Open)
    \/ (enc.completed /\ \E wd \in BOOLEAN : \E name \in name_args : GetMessages(wd, name))
    \/ (enc.completed /\ IterNext)
    \/ (enc.completed /\ Parse)
    \/ (enc.completed /\ Close)

SpecEncoder == InitEncoder /\ [][NextEncoder]_vars

\* the finished stream of the encoder
Finished == enc.t = "encoder" /\ enc.completed

\* C22: the stream of a finished encoder has, in bytes 13..14, the CRC of its
\* first 12 bytes, in bytes 5..8 the number of record bytes written, and at its
\* end the CRC of all bytes before it; a decoder that checks CRCs reads it
\* to its end and raises none of the errors of a malformed file
C22_EncoderStreamAccepted ==
    Finished =>
        /\ file = enc.file
        /\ Len(file) >= 16
        /\ UnpackLE(SubSeq(file, 13, 14)) = CrcCalculate(SubSeq(file, 1, 12), 0)
        /\ UnpackLE(SubSeq(file, 5, 8)) = Len(file) - 16
        /\ UnpackLE(SubSeq(file, Len(file) - 1, Len(file)))
               = CrcCalculate(SubSeq(file, 1, Len(file) - 2), 0)
        /\ check_crc =>
               /\ error \notin {"FitHeaderError", "FitCRCError", "FitEOFError", "FitParseError"}
               /\ complete => pos = Len(file)

\* a decoder that checks CRCs has read a finished stream of two records to
\* its end
C22_Witness ==
    /\ Finished /\ enc.written = 2 /\ enc.data_size > 0
    /\ check_crc /\ complete /\ error = "none" /\ pos = Len(file)
    /\ Len(yielded) > 0

(***************************************************************************)
(* get_messages(name=...): filtering by name and number.                   *)
(***************************************************************************)
\* the name argument: a message name, a global message number, or an
\* iterable of names and numbers
NameArg(name) == [t |-> "name", name |-> name]
NumArg(num) == [t |-> "num", num |-> num]
IterArg(names, nums) == [t |-> "iter", names |-> names, nums |-> nums]

FilterArgs ==
    {None, NameArg("record"), NumArg(0), IterArg({"file_id"}, {20}), IterArg({}, {})}

\* one regular file of file_id and record messages, with compressed
\* timestamps
FilterInputs ==
    {<< FileDesc("h14", r, "ok") >> : r \in RecLists({1, 2, 5, 6}, MaxFilterRecs)}

InitFilter ==
    /\ name_args = FilterArgs
    /\ enc = NoEncoder
    /\ probe = NoProbe
    /\ input \in FilterInputs
    /\ file = EncodeStream(input)
    /\ check_developer_data = TRUE
    /\ InitDecoder
    /\ check_crc

SpecFilter == InitFilter /\ [][Next]_vars

\* the record at a position of the stream
EntryAt(layout, offset) == layout[CHOOSE i \in 1..Len(layout) : layout[i].offset = offset]

\* the message of a record is one that get_messages(name, with_definitions)
\* is to yield: its name or its global message number is among the names
Wanted(entry, with_definitions, names) ==
    LET Named(mesg_num) ==
            \/ names = None
            \/ mesg_num \in names.nums
            \/ mesg_num \in MesgNums /\ MessageType(mesg_num).name \in names.names
    IN  /\ with_definitions \/ IsData(entry)
        /\ Named(RecordKinds[entry.def_kind].mesg_num)

\* the decoder as __init__ finds it
NewDecoder ==
    [pos |-> 0, closed |-> FALSE, crc |-> 0, bytes_left |-> -1, complete |-> FALSE,
     compressed_ts_accumulator |-> IntV(0), accumulators |-> EmptyDict,
     local_mesgs |-> EmptyDict, dev_types |-> EmptyDict, messages |-> << >>,
     warnings |-> << >>, err |-> "none", data |-> << >>, ret |-> None]

\* an unfiltered run: the constructor, then _parse_message() until the
\* decoder stands at a position (and is complete, if `completed`)
RECURSIVE ParsedTo(_, _, _)
ParsedTo(s, position, completed) ==
    IF Failed(s) \/ s.complete \/ (s.pos >= position /\ ~completed) THEN s
    ELSE Then(parse_message(s), LAMBDA s1 : ParsedTo(s1, position, completed))

Unfiltered(position, completed) ==
    Then(parse_file_header(NewDecoder), LAMBDA s1 : ParsedTo(s1, position, completed))

\* C23: get_messages(name=N) yields the messages of the records whose name or
\* global message number is in N (definition messages only with
\* with_definitions), in stream order: an uncached decoder those of the
\* stream, a cached one those of its cache; and whatever the filters of the
\* iterations made, the decoder's position, CRC, definition table, developer
\* registry, accumulators, timestamp state, cache and warnings are those of
\* an unfiltered run to the same position.
C23_FilterByName ==
    LET Offsets(msgs) == [i \in 1..Len(msgs) |-> msgs[i].offset]
        Exactly(wanted) ==
            /\ IsPrefix(YieldedOffsets, wanted)
            /\ gen.stage = "done" => YieldedOffsets = wanted
        Stream(layout) ==
            Exactly(Offsets(SelectSeq(layout,
                LAMBDA e : Wanted(e, gen.with_definitions, gen.names))))
        Cache(layout) ==
            Exactly(SelectSeq(Offsets(CachedMessages),
                LAMBDA o : Wanted(EntryAt(layout, o), gen.with_definitions, gen.names)))
        Same(s) ==
            /\ s.err = "none"
            /\ s.pos = pos /\ s.crc = crc /\ s.bytes_left = bytes_left
            /\ s.complete = complete
            /\ s.compressed_ts_accumulator = compressed_ts_accumulator
            /\ s.accumulators = accumulators
            /\ s.local_mesgs = local_mesgs
            /\ s.dev_types = dev_types
            /\ s.messages = messages
            /\ s.warnings = warnings
    IN  (WellFormed(input) /\ pc = "open" /\ error = "none" /\ passes > 0)
        => /\ (~cached /\ passes = 1) => Stream(Layout(input))
           /\ cached => Cache(Layout(input))
           /\ Same(Unfiltered(pos, complete))

\* an exhausted iteration by name over a stream with a compressed-timestamp
\* record message after file_id records that were not yielded
C23_Witness ==
    /\ WellFormed(input) /\ pc = "open" /\ error = "none" /\ passes = 1
    /\ gen.names = make_set(NameArg("record"))
    /\ gen.stage = "done"
    /\ input[1].recs = << 1, 5, 2, 6 >>
    /\ Len(yielded) = 1
    /\ complete

(***************************************************************************)
(* C24                                                                     *)
(***************************************************************************)
\* the errors of a malformed stream
FatalErrors == {"FitHeaderError", "FitCRCError", "FitEOFError", "FitParseError"}

\* C24: the stream is closed once the decoder has reached the end of the
\* stream, and once a call has raised FitHeaderError, FitCRCError,
\* FitEOFError or FitParseError.
C24_StreamReleased ==
    /\ complete => closed
    /\ error \in FatalErrors => closed

\* the part of C24 that holds: the stream is closed at the end of the stream
\* and by close(), and no byte is read from a closed stream
C24_ReleasedAtEof == complete => closed

C24_NoReadAfterRelease == [][closed => pos' = pos /\ closed']_vars

\* an iteration has raised FitCRCError at the trailing CRC of a file and the
\* stream is open
C24_Witness ==
    /\ error = "FitCRCError" /\ ~closed
    /\ passes = 1 /\ pos = Len(file)

\* the stream was closed at the end of the stream
C24_WitnessEof == complete /\ closed /\ error = "none" /\ Len(yielded) > 0

(***************************************************************************)
(* C25: base-type identifiers that are no key of BASE_TYPES.               *)
(***************************************************************************)
\* a definition with the base-type identifier 51 (kind 34), definitions of
\* developer_data_id and field_description, and data records: of text, the
\* bytes of which are 65, and of zeroes
BaseTypeInputs ==
    {<< FileDesc("h14", r, "ok") >> : r \in RecLists({7, 10, 11, 12, 34}, MaxBaseTypeRecs)}

InitBaseTypes ==
    /\ OnlyDecoder
    /\ input \in BaseTypeInputs
    /\ file = EncodeStream(input)
    /\ check_developer_data \in BOOLEAN
    /\ InitDecoder

SpecBaseTypes == InitBaseTypes /\ [][Next]_vars

\* a definition record with a field whose base-type identifier is unknown
UnknownTypeDef(entry) ==
    /\ IsDef(entry)
    /\ \E i \in 1..Len(RecordKinds[entry.kind].fields) :
          RecordKinds[entry.kind].fields[i].base_type_id \notin BaseTypeIds

\* a field_description record (definition kind 11) of text: its
\* fit_base_type_id is 65
UnknownTypeDescription(entry) == DataOf(entry, 11) /\ entry.kind = 7

\* the definition bound to a local number gives every field of an unknown
\* base type the byte type
BoundAsByte(kind) ==
    LET local == RecordKinds[kind].local
        Bound(def_mesg) ==
            \A i \in 1..Len(RecordKinds[kind].fields) :
                RecordKinds[kind].fields[i].base_type_id \notin BaseTypeIds
                => def_mesg.field_defs[i].base_type = BASE_TYPE_BYTE
    IN  local \in DOMAIN local_mesgs /\ Bound(local_mesgs[local])

\* the decoder stands after a record it has just read
JustRead(entry) == StandsAfter(entry) /\ ~closed /\ ~complete

\* C25: reading a record with an unknown base-type identifier raises no
\* error: a definition record binds the field as byte, a field_description
\* record is read without an error.
C25_UnknownBaseType ==
    LET Holds(layout) ==
            \A i \in 1..Len(layout) :
                /\ (JustRead(layout[i]) /\ UnknownTypeDef(layout[i]))
                   => (error = "none" /\ BoundAsByte(layout[i].kind))
                /\ (JustRead(layout[i]) /\ UnknownTypeDescription(layout[i]))
                   => error = "none"
    IN  Holds(Layout(input))

\* the part of C25 about definition records, which holds
C25_TripletAsByte ==
    LET Holds(layout) ==
            \A i \in 1..Len(layout) :
                (JustRead(layout[i]) /\ UnknownTypeDef(layout[i]))
                => (error = "none" /\ BoundAsByte(layout[i].kind))
    IN  Holds(Layout(input))

\* a field_description record with fit_base_type_id 65 has been read and the
\* call has raised
C25_Witness ==
    LET Reached(layout) ==
            \E i \in 1..Len(layout) :
                /\ JustRead(layout[i]) /\ UnknownTypeDescription(layout[i])
                /\ error = "AttributeError"
    IN  Reached(Layout(input))

\* a definition record with the base-type identifier 51 has been read
C25_WitnessTriplet ==
    LET Reached(layout) ==
            \E i \in 1..Len(layout) :
                /\ JustRead(layout[i]) /\ UnknownTypeDef(layout[i])
                /\ error = "none" /\ BoundAsByte(layout[i].kind)
                /\ Len(yielded) > 0
    IN  Reached(Layout(input))

(***************************************************************************)
(* C28: the compressed-timestamp accumulator.                              *)
(***************************************************************************)
\* one file: first a file_id definition, or a record definition and a record with
\* a full timestamp, alone or followed by the definition of an unknown
\* message on local 1;
\* then records with full and with compressed timestamps
TimestampInputs ==
    {<< FileDesc("h14", start \o r, "ok") >> :
        start \in {<< 1 >>, << 2, 5 >>, << 2, 5, 34 >>},
        r \in RecLists({5, 6, 35, 36}, MaxTimestampRecs)}

InitTimestamps ==
    /\ OnlyDecoder
    /\ input \in TimestampInputs
    /\ file = EncodeStream(input)
    /\ check_developer_data = TRUE
    /\ InitDecoder
    /\ check_crc

SpecTimestamps == InitTimestamps /\ [][Next]_vars

\* the data messages parsed so far, in stream order: those of the cache, or
\* those the first iteration of an uncached decoder has yielded
ParsedData ==
    SelectSeq(IF cached THEN messages ELSE yielded, LAMBDA m : m.type = "data")

\* the accumulator after the fields fields[i..] of a message: the raw value
\* of a field 253 that has one replaces it
RECURSIVE AfterFields(_, _, _, _)
AfterFields(def_mesg, fields, i, accumulator) ==
    IF i > Len(fields) THEN accumulator
    ELSE AfterFields(def_mesg, fields, i + 1,
             IF /\ fields[i].field_def # 0
                /\ fields[i].field_def <= Len(def_mesg.field_defs)
                /\ def_mesg.field_defs[fields[i].field_def].def_num = 253
                /\ fields[i].raw_value # None
             THEN fields[i].raw_value.v
             ELSE accumulator)

\* the smallest value >= accumulator whose low 5 bits are time_offset
NextTimestamp(accumulator, time_offset) ==
    CHOOSE v \in accumulator..(accumulator + 31) : v % 32 = time_offset

\* the accumulator after the first n data messages of a file
RECURSIVE AccumulatorAfter(_, _)
AccumulatorAfter(data, n) ==
    IF n = 0 THEN 0
    ELSE LET Stamped(m, full) ==
                 IF m.header.time_offset = None THEN full
                 ELSE NextTimestamp(full, m.header.time_offset.v)
         IN  Stamped(data[n],
                     AfterFields(data[n].def_mesg, data[n].fields, 1,
                                 AccumulatorAfter(data, n - 1)))

\* the timestamp field synthesized for a compressed-timestamp message
Synthesized(m) == m.fields[Len(m.fields)]

\* a message with a compressed timestamp and no timestamp field of its own
OnlyCompressed(m) ==
    /\ m.header.time_offset # None
    /\ \A i \in 1..Len(m.def_mesg.field_defs) : m.def_mesg.field_defs[i].def_num # 253

\* C28: within a file the accumulator is the raw value of the last field 253
\* that had one, advanced by every compressed-timestamp record since to the
\* smallest value at or above it whose low 5 bits are the record's offset;
\* that value is the raw value of the record's synthesized timestamp; from
\* one compressed-timestamp record to the next with no full timestamp
\* between them the timestamp does not decrease and grows by at most 31.
C28_CompressedTimestamps ==
    LET Holds(data) ==
            /\ \A n \in 1..Len(data) :
                  data[n].header.time_offset # None
                  => /\ Synthesized(data[n]).field_def = 0
                     /\ Synthesized(data[n]).field.def_num = 253
                     /\ Synthesized(data[n]).raw_value = IntV(AccumulatorAfter(data, n))
            /\ \A n \in 2..Len(data) :
                  (OnlyCompressed(data[n - 1]) /\ OnlyCompressed(data[n]))
                  => /\ Synthesized(data[n]).raw_value.v
                          >= Synthesized(data[n - 1]).raw_value.v
                     /\ Synthesized(data[n]).raw_value.v
                          <= Synthesized(data[n - 1]).raw_value.v + 31
            /\ (pc = "open" /\ error = "none")
               => compressed_ts_accumulator = IntV(AccumulatorAfter(data, Len(data)))
    IN  (cached \/ passes = 1) => Holds(ParsedData)

\* a full timestamp whose low 5 bits are 1, then compressed timestamps with
\* offset 0 (a rollover) and offset 1 on records without a timestamp field
C28_Witness ==
    LET Reached(data) ==
            /\ Len(data) = 3
            /\ data[1].header.time_offset = None
            /\ OnlyCompressed(data[2]) /\ OnlyCompressed(data[3])
            /\ Synthesized(data[2]).raw_value = IntV(16843040)
            /\ compressed_ts_accumulator = IntV(16843040)
    IN  (cached \/ passes = 1) /\ input[1].recs = << 2, 5, 34, 36, 36 >> /\ Reached(ParsedData)

\* compressed timestamps from the start of a file: 3, then 33 after a rollover
C28_WitnessRollover ==
    LET Reached(data) ==
            /\ Len(data) = 2
            /\ Synthesized(data[1]).raw_value = IntV(3)
            /\ Synthesized(data[2]).raw_value = IntV(33)
            /\ compressed_ts_accumulator = IntV(33)
    IN  (cached \/ passes = 1) /\ input[1].recs = << 1, 6, 35 >> /\ Reached(ParsedData)

(***************************************************************************)
(* C29                                                                     *)
(***************************************************************************)
\* files of one definition of the event message (data alone, data16 alone,
\* event given twice, or event and data) and data records under it
SubFieldInputs ==
    {<< FileDesc("h14", << d >> \o r, "ok") >> :
        d \in {37, 38, 39, 40}, r \in RecLists({12, 41, 42, 43, 44}, MaxSubFieldRecs)}

InitSubFields ==
    /\ OnlyDecoder
    /\ input \in SubFieldInputs
    /\ file = EncodeStream(input)
    /\ check_developer_data = TRUE
    /\ InitDecoder
    /\ check_crc

SpecSubFields == InitSubFields /\ [][Next]_vars

\* a raw value of data message m matches the reference field: an entry read
\* for a field definition of its def_num holds its raw value
RefMatches(m, ref_field) ==
    \E f \in 1..Len(m.fields) :
        /\ m.fields[f].field_def # 0
        /\ m.fields[f].field_def <= Len(m.def_mesg.field_defs)
        /\ m.def_mesg.field_defs[m.fields[f].field_def].def_num = ref_field.def_num
        /\ SameValue(m.fields[f].raw_value, ref_field.raw_value)

\* the profile field that entry f of data message m was resolved from: the
\* field of its field definition, or for the entry of a component the field
\* of the message type with the def_num of the entry's field
ResolvedFrom(m, f) ==
    IF m.fields[f].field_def # 0
    THEN IF m.fields[f].field_def <= Len(m.def_mesg.field_defs)
         THEN m.def_mesg.field_defs[m.fields[f].field_def].field
         ELSE None
    ELSE IF /\ m.def_mesg.mesg_type # None
            /\ m.fields[f].field # None
            /\ m.fields[f].field.def_num \in DOMAIN m.def_mesg.mesg_type.fields
         THEN m.def_mesg.mesg_type.fields[m.fields[f].field.def_num]
         ELSE None

\* every entry of m resolved from a field with sub-fields holds the first
\* sub-field, in declared order, that Qualifies, and the field as its
\* parent; the field itself without a parent if no sub-field qualifies
SubFieldsResolved(m, Qualifies(_)) ==
    \A f \in 1..Len(m.fields) :
        LET Chosen(entry, field, hits) ==
                IF hits = {}
                THEN entry.field = field /\ entry.parent_field = None
                ELSE /\ entry.field = field.subfields[CHOOSE k \in hits : \A h \in hits : k <= h]
                     /\ entry.parent_field = field
            From(entry, field) ==
                (field # None /\ field.subfields # << >>)
                => Chosen(entry, field,
                          {k \in 1..Len(field.subfields) : Qualifies(field.subfields[k])})
        IN  From(m.fields[f], ResolvedFrom(m, f))

\* C29 as stated: the first sub-field in declared order whose every
\* ref_field matches, by (def_num, raw_value), a raw value of the same data
\* message becomes the field of the FieldData and the original field its
\* parent_field; the field itself, without parent_field, if none qualifies.
C29_SubFieldEveryRef ==
    EveryEmittedData(LAMBDA m :
        SubFieldsResolved(m, LAMBDA sub_field :
            \A r \in 1..Len(sub_field.ref_fields) : RefMatches(m, sub_field.ref_fields[r])))

\* C29 amended: the first sub-field in declared order one of whose
\* ref_fields matches, by (def_num, raw_value), a raw value of the same data
\* message becomes the field of the FieldData and the original field its
\* parent_field; the field itself, without parent_field, if none qualifies.
C29_SubFieldAnyRef ==
    EveryEmittedData(LAMBDA m :
        SubFieldsResolved(m, LAMBDA sub_field :
            \E r \in 1..Len(sub_field.ref_fields) : RefMatches(m, sub_field.ref_fields[r])))

\* entry f of m holds the sub-field of this name with the field data as parent
Activated(m, f, name) ==
    /\ m.fields[f].field # None
    /\ m.fields[f].field.name = name
    /\ m.fields[f].parent_field # None
    /\ m.fields[f].parent_field.name = "data"

\* an event front_gear_change (42): gear_change_data, which names events 42
\* and 43, is activated for the field data
C29_Witness ==
    /\ input[1].recs = << 37, 42 >>
    /\ SomeEmittedData(LAMBDA m :
          /\ Len(m.fields) = 6
          /\ m.fields[1].raw_value = IntV(42)
          /\ Activated(m, 6, "gear_change_data")
          /\ m.fields[6].field_def = 2)

\* event given twice, with raw values 33 and 0: timer_trigger, declared
\* before sport_point, is activated
C29_WitnessOrder ==
    /\ input[1].recs = << 39, 41 >>
    /\ SomeEmittedData(LAMBDA m :
          /\ Len(m.fields) = 3
          /\ m.fields[1].raw_value = IntV(33)
          /\ m.fields[2].raw_value = IntV(0)
          /\ Activated(m, 3, "timer_trigger"))

\* no sub-field qualifies (event 1): the field data itself, without parent
C29_WitnessNone ==
    /\ input[1].recs = << 37, 44 >>
    /\ SomeEmittedData(LAMBDA m :
          /\ Len(m.fields) = 2
          /\ m.fields[2].field.name = "data"
          /\ m.fields[2].parent_field = None)

(***************************************************************************)
(* C30                                                                     *)
(***************************************************************************)
\* files of one definition of a message with components (event with data or
\* with data16, record with compressed_speed_distance in a big- and in a
\* little-endian definition) and data records under it
ComponentInputs ==
    {<< FileDesc("h14", << d >> \o r, "ok") >> :
        d \in {37, 38}, r \in RecLists({41, 42, 44}, MaxComponentRecs)}
    \cup {<< FileDesc("h14", << d >> \o r, "ok") >> :
            d \in {2, 17}, r \in RecLists({5, 23, 26}, MaxComponentRecs)}

InitComponents ==
    /\ OnlyDecoder
    /\ input \in ComponentInputs
    /\ file = EncodeStream(input)
    /\ check_developer_data = TRUE
    /\ InitDecoder
    /\ check_crc

SpecComponents == InitComponents /\ [][Next]_vars

\* the integer a raw value stands for: an integer itself, a tuple of bytes
\* with the first byte as the lowest
RECURSIVE LittleEndian(_, _)
LittleEndian(elems, k) ==
    IF k = 0 THEN 0 ELSE elems[k].v * Pow2(8 * (k - 1)) + LittleEndian(elems, k - 1)

\* the entries of m that stand for a field definition whose field, or
\* activated sub-field, has components and whose raw value is an integer or
\* a tuple of bytes
SplitEntries(m) ==
    {f \in 1..Len(m.fields) :
        /\ m.fields[f].field_def # 0
        /\ m.fields[f].field # None
        /\ m.fields[f].field.components # << >>
        /\ m.fields[f].raw_value.t \in {"int", "tuple"}}

\* C30: for an entry of a field (or activated sub-field) with components and
\* raw value n, an integer or a tuple of bytes combined little-endian, the
\* entry standing for component c has no field definition, holds the field
\* of the message type with the component's def_num (or its activated
\* sub-field), and its raw value is (n >> bit_offset) & (2^bits - 1), after
\* accumulation equal to it in its low bits, divided by the component's own
\* scale; the entry of the field itself keeps the unsplit raw value.
C30_ComponentValues ==
    LET Extracted(component, n) == (n \div Pow2(component.bit_offset)) % Pow2(component.bits)
        Scaled(component, entry, x) ==
            IF component.scale # 0
            THEN /\ entry.raw_value.t = "ratio"
                 /\ entry.raw_value.scale = component.scale
                 /\ IF component.accumulate
                    THEN entry.raw_value.v % Pow2(component.bits) = x
                    ELSE entry.raw_value.v = x
            ELSE /\ entry.raw_value.t = "int"
                 /\ IF component.accumulate
                    THEN entry.raw_value.v % Pow2(component.bits) = x
                    ELSE entry.raw_value.v = x
        Yields(m, at, component, n) ==
            /\ at >= 1
            /\ m.fields[at].field_def = 0
            /\ m.fields[at].field # None
            /\ m.fields[at].field.def_num = component.def_num
            /\ ResolvedFrom(m, at) = m.def_mesg.mesg_type.fields[component.def_num]
            /\ m.fields[at].field \in {ResolvedFrom(m, at)}
                                      \cup {ResolvedFrom(m, at).subfields[k] :
                                              k \in 1..Len(ResolvedFrom(m, at).subfields)}
            /\ Scaled(component, m.fields[at], Extracted(component, n))
        Split(m, f, components, raw_value) ==
            /\ \A c \in 1..Len(components) :
                  Yields(m, f - Len(components) + c - 1, components[c],
                         IF raw_value.t = "tuple"
                         THEN LittleEndian(raw_value.v, Len(raw_value.v))
                         ELSE raw_value.v)
            /\ m.fields[f].field.scale = 0 => m.fields[f].value = raw_value
        Holds(m) ==
            \A f \in SplitEntries(m) :
                Split(m, f, m.fields[f].field.components, m.fields[f].raw_value)
    IN  EveryEmittedData(Holds)

\* an event sport_point with data = 123 + 456 * 2^16: the activated
\* sub-field yields score 123 and opponent_score 456 before the entry of
\* data, which keeps 29884539
C30_Witness ==
    /\ input[1].recs = << 37, 41 >>
    /\ SomeEmittedData(LAMBDA m :
          /\ Len(m.fields) = 4
          /\ m.fields[2].field_def = 0 /\ m.fields[2].field.name = "score"
          /\ m.fields[2].raw_value = IntV(123)
          /\ m.fields[3].field_def = 0 /\ m.fields[3].field.name = "opponent_score"
          /\ m.fields[3].raw_value = IntV(456)
          /\ m.fields[4].field.name = "sport_point"
          /\ m.fields[4].value = IntV(29884539))

\* a record in a big-endian definition whose compressed_speed_distance is
\* the bytes 255, 1, 1: speed is the low 12 bits of 66047 over 100, distance
\* bits 12..23 over 16
C30_WitnessTuple ==
    /\ input[1].recs = << 2, 26 >>
    /\ SomeEmittedData(LAMBDA m :
          /\ Len(m.fields) = 4
          /\ m.fields[2].field_def = 0 /\ m.fields[2].field.name = "speed"
          /\ m.fields[2].raw_value = RatioV(511, 100)
          /\ m.fields[3].field_def = 0 /\ m.fields[3].field.name = "distance"
          /\ m.fields[3].raw_value = RatioV(16, 16)
          /\ m.fields[4].field.name = "compressed_speed_distance"
          /\ m.fields[4].value = TupleV(<< IntV(255), IntV(1), IntV(1) >>))

(***************************************************************************)
(* C31: the base-type identifiers of the wire format.                      *)
(***************************************************************************)
\* definitions of an unknown message with one field of every key of
\* BASE_TYPES (kind 45), with the identifiers 0x8E, 0x8F, 0x90 (kind 46) and
\* with the identifier 51 (kind 34), and data records of zeroes
WireTypeInputs ==
    {<< FileDesc("h14", r, "ok") >> : r \in RecLists({12, 34, 45, 46}, MaxWireTypeRecs)}

InitWireTypes ==
    /\ OnlyDecoder
    /\ input \in WireTypeInputs
    /\ file = EncodeStream(input)
    /\ check_developer_data = TRUE
    /\ InitDecoder

SpecWireTypes == InitWireTypes /\ [][Next]_vars

\* the 64-bit identifiers of the wire-format table: sint64, uint64, uint64z
WideTypeIds == {142, 143, 144}

\* the name, the element size and the invalid sentinel (its little-endian
\* bytes; << >> for string and byte, whose sentinel is no element value) that
\* the wire-format table lists for an identifier
WireTable(id) ==
    LET Entry(name, size, invalid) == [name |-> name, size |-> size, invalid |-> invalid]
        Ones(n) == [b \in 1..n |-> 255]
        Zeroes(n) == [b \in 1..n |-> 0]
        Most(n) == [b \in 1..n |-> IF b = n THEN 127 ELSE 255]
    IN  CASE id = 0   -> Entry("enum", 1, Ones(1))
          [] id = 1   -> Entry("sint8", 1, Most(1))
          [] id = 2   -> Entry("uint8", 1, Ones(1))
          [] id = 131 -> Entry("sint16", 2, Most(2))
          [] id = 132 -> Entry("uint16", 2, Ones(2))
          [] id = 133 -> Entry("sint32", 4, Most(4))
          [] id = 134 -> Entry("uint32", 4, Ones(4))
          [] id = 7   -> Entry("string", 1, << >>)
          [] id = 136 -> Entry("float32", 4, Ones(4))
          [] id = 137 -> Entry("float64", 8, Ones(8))
          [] id = 10  -> Entry("uint8z", 1, Zeroes(1))
          [] id = 139 -> Entry("uint16z", 2, Zeroes(2))
          [] id = 140 -> Entry("uint32z", 4, Zeroes(4))
          [] id = 13  -> Entry("byte", 1, << >>)
          [] id = 142 -> Entry("sint64", 8, Most(8))
          [] id = 143 -> Entry("uint64", 8, Ones(8))
          [] id = 144 -> Entry("uint64z", 8, Zeroes(8))

\* the definition bound to the local number of the definition record `kind`
\* gives every field with an identifier among ids the base type the table
\* lists, and every other field the byte type
BoundByTable(kind, ids) ==
    LET Listed(base_type, entry) ==
            /\ base_type.name = entry.name
            /\ base_type.size = entry.size
            /\ base_type.invalid_value = entry.invalid
        Bound(def_mesg, fields) ==
            /\ Len(def_mesg.field_defs) = Len(fields)
            /\ \A i \in 1..Len(fields) :
                  IF fields[i].base_type_id \in ids
                  THEN Listed(def_mesg.field_defs[i].base_type,
                              WireTable(fields[i].base_type_id))
                  ELSE def_mesg.field_defs[i].base_type = BASE_TYPE_BYTE
    IN  /\ RecordKinds[kind].local \in DOMAIN local_mesgs
        /\ Bound(local_mesgs[RecordKinds[kind].local], RecordKinds[kind].fields)

\* C31: a definition record binds every field whose base-type identifier is
\* one of the wire-format table, the 64-bit identifiers 0x8E, 0x8F and 0x90
\* included, to the base type of that name, element size and invalid
\* sentinel; only the other identifiers fall back to byte.
C31_WireTable ==
    LET Holds(layout) ==
            \A i \in 1..Len(layout) :
                (JustRead(layout[i]) /\ IsDef(layout[i]))
                => /\ error = "none"
                   /\ BoundByTable(layout[i].kind, BaseTypeIds \cup WideTypeIds)
    IN  Holds(Layout(input))

\* the part of C31 that holds: the keys of BASE_TYPES resolve as listed,
\* every other identifier, 0x8E, 0x8F and 0x90 among them, falls back to byte
C31_RegisteredTypes ==
    LET Holds(layout) ==
            \A i \in 1..Len(layout) :
                (JustRead(layout[i]) /\ IsDef(layout[i]))
                => /\ error = "none"
                   /\ BoundByTable(layout[i].kind, BaseTypeIds)
    IN  Holds(Layout(input))

\* a definition record with the identifiers 0x8E, 0x8F and 0x90 has been
\* read: its fields are bound as byte
C31_Witness ==
    LET Reached(layout) ==
            \E i \in 1..Len(layout) :
                /\ JustRead(layout[i]) /\ layout[i].kind = 46
                /\ error = "none"
                /\ \A f \in 1..3 : local_mesgs[1].field_defs[f].base_type = BASE_TYPE_BYTE
                /\ Len(yielded) > 0
    IN  Reached(Layout(input))

\* a definition record with one field of every key of BASE_TYPES has been
\* read and bound as the table lists
C31_WitnessRegistered ==
    LET Reached(layout) ==
            \E i \in 1..Len(layout) :
                /\ JustRead(layout[i]) /\ layout[i].kind = 45
                /\ error = "none"
                /\ BoundByTable(45, BaseTypeIds)
                /\ local_mesgs[1].field_defs[10].base_type.name = "float64"
    IN  Reached(Layout(input))

(***************************************************************************)
(* C32: the value of a field: render, then scale and offset.               *)
(***************************************************************************)
\* files of one definition (record with altitude, which has scale 5 and
\* offset 500, and speed; file_id with the enumerated type; file_id with a
\* string) and data records of text, of zeroes, of 513 and of 0xFF bytes
\* (an altitude without a value)
RenderInputs ==
    {<< FileDesc("h14", << d >> \o r, "ok") >> :
        d \in {47, 48, 49}, r \in RecLists({8, 12, 44, 50}, MaxRenderRecs)}

InitRender ==
    /\ OnlyDecoder
    /\ input \in RenderInputs
    /\ file = EncodeStream(input)
    /\ check_developer_data = TRUE
    /\ InitDecoder
    /\ check_crc

SpecRender == InitRender /\ [][Next]_vars

\* the bytes of field definition j in the record of data message m
FieldBytesOf(m, j) ==
    LET RECURSIVE Before(_)
        Before(i) == IF i = 0 THEN 0 ELSE m.def_mesg.field_defs[i].size + Before(i - 1)
    IN  SubSeq(file, m.offset + 2 + Before(j - 1), m.offset + 1 + Before(j))

\* C32: the value of a field is its raw value with the enumerated name
\* substituted when the field's type maps it, then, if that is a number,
\* divided by a truthy scale and lessened by a truthy offset, element by
\* element for a tuple; None, strings and names are the value unchanged,
\* and raw_value is the value parsed from the bytes of the field.
C32_RenderThenScale ==
    LET One(field, x) ==
            CASE x.t # "int" -> x
              [] x.t = "int" /\ field.scale # 0 /\ field.offset # 0 ->
                   ShiftedV(x.v, field.scale, field.offset)
              [] x.t = "int" /\ field.scale # 0 /\ field.offset = 0 ->
                   RatioV(x.v, field.scale)
              [] x.t = "int" /\ field.scale = 0 /\ field.offset # 0 ->
                   IntV(x.v - field.offset)
              [] OTHER -> x
        Numbers(field, x) ==
            IF x.t = "tuple" THEN TupleV([i \in 1..Len(x.v) |-> One(field, x.v[i])])
            ELSE One(field, x)
        Named(field, raw_value) ==
            IF raw_value.t = "int" /\ raw_value.v \in DOMAIN field.type.values
            THEN EnumV(field.type.values[raw_value.v])
            ELSE raw_value
        Entry(m, entry, field_def) ==
            /\ entry.raw_value = parse_raw_value(field_def.base_type,
                                     FieldBytesOf(m, entry.field_def), m.def_mesg.endian,
                                     field_def.size \div field_def.base_type.size)
            /\ entry.value = (IF entry.field = None THEN entry.raw_value
                              ELSE Numbers(entry.field, Named(entry.field, entry.raw_value)))
            /\ entry.raw_value.t \in {"none", "str"} => entry.value = entry.raw_value
        Holds(m) ==
            \A f \in 1..Len(m.fields) :
                (m.fields[f].field_def # 0
                 /\ m.fields[f].field_def <= Len(m.def_mesg.field_defs))
                => Entry(m, m.fields[f], m.def_mesg.field_defs[m.fields[f].field_def])
    IN  EveryEmittedData(Holds)

\* altitude 513 is 513 / 5 - 500, both elements of the tuple likewise, and
\* speed 513 is 513 / 1000; the raw values stay 513
C32_Witness ==
    /\ input[1].recs = << 47, 44 >>
    /\ SomeEmittedData(LAMBDA m :
          /\ Len(m.fields) = 3
          /\ m.fields[1].raw_value = IntV(513)
          /\ m.fields[1].value = ShiftedV(513, 5, 500)
          /\ m.fields[2].raw_value = TupleV(<< IntV(513), IntV(513) >>)
          /\ m.fields[2].value = TupleV(<< ShiftedV(513, 5, 500), ShiftedV(513, 5, 500) >>)
          /\ m.fields[3].value = RatioV(513, 1000))

\* type 1 is "device" and is not scaled; a tuple of types keeps its numbers
C32_WitnessEnum ==
    /\ input[1].recs = << 48, 44 >>
    /\ SomeEmittedData(LAMBDA m :
          /\ Len(m.fields) = 2
          /\ m.fields[1].raw_value = IntV(1)
          /\ m.fields[1].value = EnumV("device")
          /\ m.fields[2].value = TupleV(<< IntV(1), IntV(1) >>))

\* a string and a None pass through
C32_WitnessText ==
    /\ input[1].recs = << 49, 8, 12 >>
    /\ SomeEmittedData(LAMBDA m :
          /\ m.fields[2].raw_value = StrV(<< 65 >>)
          /\ m.fields[2].value = StrV(<< 65 >>))
    /\ SomeEmittedData(LAMBDA m :
          /\ m.fields[2].field.name = "product_name"
          /\ m.fields[2].raw_value = None /\ m.fields[2].value = None)

(***************************************************************************)
(* C33: records.Crc fed through update() calls.  `probe` holds a Crc        *)
(* object, the bytes it is to consume and how they were fed so far.         *)
(***************************************************************************)
\* bytes with the low nibble, the high nibble, both or neither set
CrcBytes == {0, 1, 15, 240, 165, 255}

\* Crc() and the byte sequence to feed it: `fed` bytes went through
\* `updates` calls of update(), the last of them with `last` bytes; `whole`
\* is the result of Crc.calculate(byte_arr), once it was called
CrcProbe(byte_arr) ==
    [t |-> "crc", byte_arr |-> byte_arr, value |-> 0, fed |-> 0, updates |-> 0,
     last |-> 0, before |-> 0, whole |-> None]

CrcProbes == UNION {{CrcProbe(b) : b \in [1..n -> CrcBytes]} : n \in 0..MaxCrcBytes}

InitCrc ==
    /\ probe \in CrcProbes
    /\ input = << >>
    /\ file = << >>
    /\ check_developer_data = TRUE
    /\ name_args = {None}
    /\ enc = NoEncoder
    /\ InitDecoder
    /\ check_crc
    /\ ~cached

\* Crc.update(byte_arr) with the next n bytes of the sequence
CrcFeed(n) ==
    /\ probe.t = "crc"
    /\ probe.updates < MaxCrcUpdates
    /\ probe.fed + n <= Len(probe.byte_arr)
    /\ probe' = [probe EXCEPT
                    !.value = CrcUpdate(probe.value,
                                        SubSeq(probe.byte_arr, probe.fed + 1, probe.fed + n)),
                    !.fed = probe.fed + n,
                    !.updates = probe.updates + 1,
                    !.last = n,
                    !.before = probe.value]
    /\ UNCHANGED << input, file, check_crc, cached, check_developer_data, pc, pos, closed,
                    crc, bytes_left, complete, compressed_ts_accumulator, accumulators,
                    local_mesgs, dev_types, messages, warnings, error, gen, yielded,
                    passes, name_args, enc >>

\* Crc.calculate(byte_arr) over the whole sequence
CrcWhole ==
    /\ probe.t = "crc"
    /\ probe.whole = None
    /\ probe' = [probe EXCEPT !.whole = IntV(CrcCalculate(probe.byte_arr, 0))]
    /\ UNCHANGED << input, file, check_crc, cached, check_developer_data, pc, pos, closed,
                    crc, bytes_left, complete, compressed_ts_accumulator, accumulators,
                    local_mesgs, dev_types, messages, warnings, error, gen, yielded,
                    passes, name_args, enc >>

NextCrc ==
    \/ \E n \in 0..MaxCrcBytes : CrcFeed(n)
    \/ CrcWhole

SpecCrc == InitCrc /\ [][NextCrc]_vars

\* the CRC-16 of the FIT protocol computed bit by bit: the byte is folded
\* into the low bits, then the value is shifted right eight times, 0xA001
\* being folded in whenever a one is shifted out
BitwiseCrc(bytes, k) ==
    LET Xor16(a, b) ==
            LET RECURSIVE Bits(_)
                Bits(i) == IF i = 16 THEN 0
                           ELSE ((Bit(a, i) + Bit(b, i)) % 2) * Pow2(i) + Bits(i + 1)
            IN  Bits(0)
        Shift(c) == IF c % 2 = 1 THEN Xor16(c \div 2, 40961) ELSE c \div 2
        RECURSIVE Shifts(_, _)
        Shifts(c, n) == IF n = 0 THEN c ELSE Shifts(Shift(c), n - 1)
        RECURSIVE Fold(_)
        Fold(i) == IF i = 0 THEN 0 ELSE Shifts(Xor16(Fold(i - 1), bytes[i]), 8)
    IN  Fold(k)

\* C33: the value of a Crc fed a byte sequence through successive update()
\* calls is the CRC of the bytes consumed so far however they were split,
\* an empty update leaves it unchanged, the value stays within 0..0xFFFF,
\* it is the value of two table steps a byte, low nibble first, and once
\* all bytes are consumed it is the result of one calculate() over the whole
\* sequence.
C33_CrcSplit ==
    LET TwoSteps(bytes, k) ==
            LET RECURSIVE Steps(_)
                Steps(i) == IF i = 0 THEN 0
                            ELSE CrcNibble(CrcNibble(Steps(i - 1), bytes[i] % 16),
                                           bytes[i] \div 16)
            IN  Steps(k)
    IN  probe.t = "crc"
        => /\ probe.value \in 0..65535
           /\ probe.value = BitwiseCrc(probe.byte_arr, probe.fed)
           /\ probe.value = TwoSteps(probe.byte_arr, probe.fed)
           /\ (probe.updates > 0 /\ probe.last = 0) => probe.value = probe.before
           /\ (probe.whole # None /\ probe.fed = Len(probe.byte_arr))
              => probe.whole = IntV(probe.value)

\* the bytes 0x0F, 0xF0, 0xA5 fed as one byte, an empty update and two
\* bytes, and calculate() over the three: both give the same value
C33_Witness ==
    /\ probe.t = "crc"
    /\ probe.byte_arr = << 15, 240, 165 >>
    /\ probe.fed = 3 /\ probe.updates = 3 /\ probe.last = 2
    /\ probe.whole = IntV(probe.value)
    /\ probe.value # 0

\* an empty update after a byte was consumed
C33_WitnessEmpty ==
    /\ probe.t = "crc"
    /\ probe.fed = 1 /\ probe.updates = 2 /\ probe.last = 0
    /\ probe.value = probe.before /\ probe.value # 0

(***************************************************************************)
(* C34, C35: the accumulators of accumulating components.                  *)
(***************************************************************************)
\* files that start with a definition of record with
\* compressed_speed_distance, on local 0 (with a timestamp) or on local 1,
\* followed by more such definitions and by data records on both locals:
\* the bytes 1, 127, 65 (distance bits 16, 2039, 1044) and 0xFF (no value)
AccumulatorInputs ==
    {<< FileDesc("h14", << d >> \o r, "ok") >> :
        d \in {2, 51}, r \in RecLists({2, 51, 5, 7, 22, 23}, MaxAccumulatorRecs)}

InitAccumulators ==
    /\ OnlyDecoder
    /\ input \in AccumulatorInputs
    /\ file = EncodeStream(input)
    /\ check_developer_data = TRUE
    /\ InitDecoder
    /\ check_crc

SpecAccumulators == InitAccumulators /\ [][Next]_vars

\* the position in m.fields of the entry of compressed_speed_distance; 0 if
\* the message has none
PackedEntry(m) ==
    LET at == {f \in 1..Len(m.fields) :
                  /\ m.fields[f].field_def # 0
                  /\ m.fields[f].field # None
                  /\ m.fields[f].field.name = "compressed_speed_distance"}
    IN  IF at = {} THEN 0 ELSE CHOOSE f \in at : TRUE

\* m is a record message whose compressed_speed_distance has a value
HasDistance(m) ==
    /\ m.def_mesg.mesg_num = 20
    /\ PackedEntry(m) > 2
    /\ m.fields[PackedEntry(m)].raw_value # None

\* the accumulated distance a message emits, before scaling
EmittedDistance(m) == m.fields[PackedEntry(m) - 1].raw_value.v

\* bits 12..23 of the bytes of compressed_speed_distance
ExtractedDistance(m) ==
    LET Bytes(b) == ((b[1].v + 256 * b[2].v + 65536 * b[3].v) \div 4096) % 4096
    IN  Bytes(m.fields[PackedEntry(m)].raw_value.v)

\* a definition record of a message with an accumulating component lies
\* between the stream positions lo and hi
DefinedBetween(layout, lo, hi) ==
    \E i \in 1..Len(layout) :
        /\ IsDef(layout[i])
        /\ layout[i].offset > lo /\ layout[i].offset < hi
        /\ RecordKinds[layout[i].kind].mesg_num = 20
        /\ \E t \in 1..Len(RecordKinds[layout[i].kind].fields) :
              RecordKinds[layout[i].kind].fields[t].def_num = 8

\* the accumulator of distance before data message n: 0 after a definition,
\* else the value the last message with a value has emitted
RECURSIVE DistanceBefore(_, _, _)
DistanceBefore(data, n, layout) ==
    IF n = 1 THEN 0
    ELSE IF DefinedBetween(layout, data[n - 1].offset, data[n].offset) THEN 0
    ELSE IF HasDistance(data[n - 1]) THEN EmittedDistance(data[n - 1])
    ELSE DistanceBefore(data, n - 1, layout)

\* v is the smallest value >= accumulator whose low 12 bits are extracted
NextAccumulated(accumulator, extracted, v) ==
    /\ v >= accumulator
    /\ v < accumulator + 4096
    /\ v % 4096 = extracted

\* C34: a data message whose compressed_speed_distance has a value emits
\* for distance, over the component's scale, the smallest value at or above
\* the accumulator whose low 12 bits are the extracted bits, and that value
\* is the accumulator afterwards; the emitted values do not decrease from
\* one message to the next unless a definition lies between them; a message
\* whose field has no value emits None and leaves the accumulator as it was.
C34_AccumulatedComponent ==
    LET Emits(data, n, layout) ==
            IF HasDistance(data[n])
            THEN /\ data[n].fields[PackedEntry(data[n]) - 1].field_def = 0
                 /\ data[n].fields[PackedEntry(data[n]) - 1].field.name = "distance"
                 /\ data[n].fields[PackedEntry(data[n]) - 1].raw_value.t = "ratio"
                 /\ data[n].fields[PackedEntry(data[n]) - 1].raw_value.scale = 16
                 /\ NextAccumulated(DistanceBefore(data, n, layout),
                                    ExtractedDistance(data[n]), EmittedDistance(data[n]))
            ELSE PackedEntry(data[n]) > 2
                 => data[n].fields[PackedEntry(data[n]) - 1].raw_value = None
        After(data, n, layout) ==
            (error = "none" /\ pos = data[n].offset + EntryAt(layout, data[n].offset).len)
            => /\ 20 \in DOMAIN accumulators /\ 5 \in DOMAIN accumulators[20]
               /\ accumulators[20][5] = IF HasDistance(data[n]) THEN EmittedDistance(data[n])
                                        ELSE DistanceBefore(data, n, layout)
        Holds(data, layout) ==
            /\ \A n \in 1..Len(data) : Emits(data, n, layout)
            /\ Len(data) > 0 => After(data, Len(data), layout)
    IN  (cached \/ passes = 1) => Holds(ParsedData, Layout(input))

\* distance bits 2039, then 16: the accumulator wraps to 4096 + 16; then a
\* field without a value leaves it there
C34_Witness ==
    LET Reached(data) ==
            /\ Len(data) = 3
            /\ EmittedDistance(data[1]) = 2039
            /\ EmittedDistance(data[2]) = 4112
            /\ ~HasDistance(data[3])
            /\ accumulators[20][5] = 4112
    IN  /\ (cached \/ passes = 1)
        /\ input[1].recs = << 2, 23, 5, 22 >>
        /\ Reached(ParsedData)

\* the accumulating components of the fields, and of their sub-fields, of
\* a definition message
AccumulatingOf(def_mesg) ==
    LET Of(components) == {components[c].def_num : c \in {c \in 1..Len(components) :
                                                           components[c].accumulate}}
        OfField(field) ==
            IF field = None THEN {}
            ELSE Of(field.components)
                 \cup UNION {Of(field.subfields[k].components) :
                                k \in 1..Len(field.subfields)}
    IN  UNION {OfField(def_mesg.field_defs[i].field) : i \in 1..Len(def_mesg.field_defs)}

C35_WitnessRestart ==
    LET Reached(data) ==
            /\ Len(data) = 2
            /\ EmittedDistance(data[1]) = 2039
            /\ EmittedDistance(data[2]) = 16
    IN  /\ (cached \/ passes = 1)
        /\ input[1].recs = << 2, 23, 2, 5 >>
        /\ Reached(ParsedData)

(***************************************************************************)
(* C36: the developer-data registry at the boundary of chained files.      *)
(***************************************************************************)
\* chained streams of two files of definitions of file_id, without and with
\* a developer field, and data records
ChainedDeveloperInputs ==
    {<< FileDesc("h14", r1, "ok"), FileDesc("h14", r2, "ok") >> :
        r1 \in RecLists({1, 5, 9}, MaxChainedDeveloperRecs),
        r2 \in RecLists({1, 5, 9}, MaxChainedDeveloperRecs)}

InitChainedDeveloper ==
    /\ OnlyDecoder
    /\ input \in ChainedDeveloperInputs
    /\ file = EncodeStream(input)
    /\ check_developer_data \in BOOLEAN
    /\ InitDecoder
    /\ check_crc

SpecChainedDeveloper == InitChainedDeveloper /\ [][Next]_vars

\* no definition record with developer fields of the second file was read
NoDeveloperDefRead(layout) ==
    \A i \in 1..Len(layout) :
        (/\ layout[i].file = 2
         /\ IsDef(layout[i])
         /\ RecordKinds[layout[i].kind].dev_fields # << >>)
        => pos <= layout[i].offset

\* C36: the developer-data registry is state of one file: while the decoder
\* stands in the second file of a chain and has read no record of it that
\* registers developer data, the registry is empty.
C36_RegistryPerFile ==
    (InSecondFile /\ NoDeveloperDefRead(Layout(input))) => DOMAIN dev_types = {}

\* the part of C36 that holds: in strict mode a definition record of the
\* second file with a developer field raises FitParseError (no record of a
\* stream can register a field in strict mode)
C36_StrictRaises ==
    LET Holds(layout) ==
            \A i \in 1..Len(layout) :
                (/\ check_developer_data
                 /\ layout[i].file = 2
                 /\ IsDef(layout[i])
                 /\ RecordKinds[layout[i].kind].dev_fields # << >>
                 /\ pos > layout[i].offset)
                => error = "FitParseError"
    IN  Holds(Layout(input))

\* lenient mode: the decoder stands in the second file, has read no record
\* of it with a developer field, and the registry holds the field (0, 0)
\* that the first file registered
C36_Witness ==
    /\ ~check_developer_data
    /\ InSecondFile /\ error = "none"
    /\ NoDeveloperDefRead(Layout(input))
    /\ FieldRegistered

\* lenient mode: the definition of the second file finds the field of the
\* first and adds no warning to the two of the first file
C36_WitnessReused ==
    /\ ~check_developer_data
    /\ input[1].recs = << 9 >> /\ input[2].recs = << 9 >>
    /\ InSecondFile /\ error = "none"
    /\ ~NoDeveloperDefRead(Layout(input))
    /\ Len(warnings) = 2

\* strict mode: the definition of the second file raises
C36_WitnessStrict ==
    /\ check_developer_data
    /\ input[1].recs = << 1 >> /\ input[2].recs = << 9 >>
    /\ ~NoDeveloperDefRead(Layout(input))
    /\ error = "FitParseError"

(***************************************************************************)
(* C37: a decoder that does not check CRCs.                                *)
(***************************************************************************)
\* the errors of a malformed stream
StreamErrors == {"FitEOFError", "FitHeaderError", "FitCRCError", "FitParseError"}

\* C37: a decoder with check_crc = False reads every well-formed stream,
\* single or chained, to its end over the trailing CRC bytes and raises
\* none of the errors of a malformed stream.
C37_CrcOffTerminates ==
    (~check_crc /\ WellFormed(input)) => error \notin StreamErrors

\* the part of C37 that holds: no comparison is made, a decoder with
\* check_crc = False never raises FitCRCError, whatever the stored CRCs are
C37_CrcOffNoComparison ==
    ~check_crc => error # "FitCRCError"

\* a well-formed single file, check_crc = False: the decoder has raised
\* FitEOFError for the 12 bytes of a header it tried to read from the two
\* trailing CRC bytes, and is not complete
C37_Witness ==
    /\ ~check_crc /\ WellFormed(input) /\ Len(input) = 1
    /\ input[1].recs # << >>
    /\ ~complete
    /\ error = "FitEOFError"

\* a well-formed chain, check_crc = False: the decoder has read a header from
\* the trailing CRC bytes of the first file on and has raised FitHeaderError
C37_WitnessChained ==
    /\ ~check_crc /\ WellFormed(input) /\ Len(input) = 2
    /\ error = "FitHeaderError"

\* check_crc = False and a wrong header CRC: the header is accepted and the
\* records of the body are read
C37_WitnessWrongCrc ==
    /\ ~check_crc /\ Len(input) = 1 /\ input[1].hdr = "h14bad"
    /\ pc = "open" /\ error = "none"
    /\ pos > 14

(***************************************************************************)
(* C38: parse() on a decoder that has reached the end of the stream.       *)
(***************************************************************************)
\* C38: parse() on a cached decoder that is complete returns without error
\* and leaves the cache as it was.
C38_ParseIdempotent ==
    [][(complete /\ error = "none" /\ Parse)
       => (error' = "none" /\ messages' = messages)]_vars

\* the part of C38 that holds: parse() on a complete decoder leaves the
\* cache, the position and the running CRC as they were
C38_ParseKeepsCache ==
    [][(complete /\ error = "none" /\ Parse)
       => (messages' = messages /\ pos' = pos /\ crc' = crc /\ complete')]_vars

\* a well-formed stream was read to its end with check_crc, and parse() on
\* the complete decoder has raised AttributeError (its file is None); the
\* cache holds the messages of the records and the final None
C38_Witness ==
    /\ cached /\ check_crc /\ WellFormed(input)
    /\ complete /\ closed
    /\ error = "AttributeError"
    /\ Len(messages) = Len(Layout(input)) + 1
    /\ Len(messages) > 1

(***************************************************************************)
(* C39: several iterators of get_messages() on one cached decoder, driven  *)
(* in one thread in any order, with parse() and abandoned iterators.       *)
(***************************************************************************)
IteratorInputs ==
    {<< FileDesc("h14", r, "ok") >> : r \in RecLists({1, 5}, MaxIteratorRecs)}

\* a generator of get_messages() that was not made yet
NoIterator == [NoGenerator EXCEPT !.stage = "none"]

\* the generators of the get_messages() calls and what each has yielded
Iterators(gens, outs) == [t |-> "iterators", gens |-> gens, yielded |-> outs]

InitIterators ==
    /\ probe = Iterators([i \in 1..NumIterators |-> NoIterator],
                         [i \in 1..NumIterators |-> << >>])
    /\ name_args = {None}
    /\ enc = NoEncoder
    /\ input \in IteratorInputs
    /\ file = EncodeStream(input)
    /\ check_developer_data = TRUE
    /\ InitDecoder
    /\ check_crc
    /\ cached

\* get_messages(): generator i is made; none of its code runs before the
\* first next()
IterGetMessages(i) ==
    /\ pc = "open"
    /\ probe.gens[i].stage = "none"
    /\ probe' = [probe EXCEPT !.gens[i] =
                    [active |-> TRUE, with_definitions |-> FALSE, names |-> make_set(None),
                     index |-> 0, stage |-> "cache"]]
    /\ UNCHANGED << name_args, enc, input, file, check_crc, cached, check_developer_data,
                    pc, pos, closed, crc, bytes_left, complete, compressed_ts_accumulator,
                    accumulators, local_mesgs, dev_types, messages, warnings, error,
                    gen, yielded, passes >>

\* next() on generator i: CacheMixin.get_messages yields the next cached
\* message that matches; once the list is exhausted
\* FitFileDecoder.get_messages parses on from where the decoder stands
IterStep(i) ==
    LET g == probe.gens[i]
        j == next_cached(messages, g.index, g.with_definitions, g.names)
        Parsed(s) ==
            /\ Commit(s)
            /\ probe' = [probe EXCEPT
                   !.gens[i] = IF Failed(s) THEN [g EXCEPT !.active = FALSE, !.stage = "raised"]
                               ELSE IF s.ret = NoMessage
                                    THEN [g EXCEPT !.active = FALSE, !.stage = "done"]
                               ELSE [g EXCEPT !.stage = "parse"],
                   !.yielded[i] = IF Failed(s) \/ s.ret = NoMessage THEN @
                                  ELSE Append(@, s.ret)]
    IN  /\ pc = "open"
        /\ g.active
        /\ IF g.stage = "cache" /\ j > 0
           THEN /\ probe' = [probe EXCEPT !.gens[i].index = j,
                                          !.yielded[i] = Append(@, messages[j])]
                /\ UNCHANGED << pc, pos, closed, crc, bytes_left, complete,
                                compressed_ts_accumulator, accumulators, local_mesgs,
                                dev_types, messages, warnings, error >>
           ELSE Parsed(decoder_get_messages(Self, g.with_definitions, g.names))
        /\ UNCHANGED << name_args, enc, input, file, check_crc, cached,
                        check_developer_data, gen, yielded, passes >>

\* generator i is dropped before it is exhausted
IterAbandon(i) ==
    /\ pc = "open"
    /\ probe.gens[i].active
    /\ probe' = [probe EXCEPT !.gens[i].active = FALSE, !.gens[i].stage = "abandoned"]
    /\ UNCHANGED << name_args, enc, input, file, check_crc, cached, check_developer_data,
                    pc, pos, closed, crc, bytes_left, complete, compressed_ts_accumulator,
                    accumulators, local_mesgs, dev_types, messages, warnings, error,
                    gen, yielded, passes >>

NextIterators ==
    \/ Open
    \/ \E i \in 1..NumIterators : IterGetMessages(i)
    \/ \E i \in 1..NumIterators : IterStep(i)
    \/ \E i \in 1..NumIterators : IterAbandon(i)
    \/ Parse

SpecIterators == InitIterators /\ [][NextIterators]_vars

\* the positions of the records generator i yielded messages for
IterOffsets(i) == [n \in 1..Len(probe.yielded[i]) |-> probe.yielded[i][n].offset]

\* a is b without some of its elements
RECURSIVE IsSubSequence(_, _)
IsSubSequence(a, b) ==
    IF a = << >> THEN TRUE
    ELSE IF b = << >> THEN FALSE
    ELSE IF Head(a) = Head(b) THEN IsSubSequence(Tail(a), Tail(b))
    ELSE IsSubSequence(a, Tail(b))

\* C39: on a cached decoder every generator of get_messages() that was
\* driven to exhaustion has yielded the data message of every data record of
\* the stream, once and in file order, however its steps were interleaved
\* with those of other generators and with parse().
C39_EveryIteratorComplete ==
    \A i \in 1..NumIterators :
        probe.gens[i].stage = "done" => IterOffsets(i) = DataOffsets(input)

\* the part of C39 that holds: a generator never yields a message twice or
\* out of file order
C39_IteratorInOrder ==
    \A i \in 1..NumIterators : IsSubSequence(IterOffsets(i), DataOffsets(input))

\* two generators advanced in turn past the cache: both are exhausted, the
\* second has yielded both data messages, the first only the one it parsed
\* itself (the second generator parsed the other)
C39_Witness ==
    /\ input[1].recs = << 1, 5, 5 >>
    /\ probe.gens[1].stage = "done" /\ probe.gens[2].stage = "done"
    /\ IterOffsets(1) = << DataOffsets(input)[1] >>
    /\ IterOffsets(2) = DataOffsets(input)
    /\ error = "none"

\* parse() between the steps of a generator that is past the cache: the
\* generator is exhausted after one message of two
C39_WitnessParse ==
    /\ input[1].recs = << 1, 5, 5 >>
    /\ probe.gens[1].stage = "done" /\ probe.gens[2].stage = "none"
    /\ IterOffsets(1) = << DataOffsets(input)[1] >>
    /\ error = "none"

\* a generator made after the first was abandoned part-way has yielded all
C39_WitnessAbandoned ==
    /\ input[1].recs = << 1, 5, 5 >>
    /\ probe.gens[1].stage = "abandoned" /\ Len(IterOffsets(1)) = 1
    /\ probe.gens[2].stage = "done"
    /\ IterOffsets(2) = DataOffsets(input)

(***************************************************************************)
(* C40: the bytes a data message consumes.  A record of a stream cannot    *)
(* register a typed developer field (add_dev_field_description ends in     *)
(* AttributeError), so the registry methods of DeveloperDataMixin are      *)
(* called on the decoder before the records are read.                      *)
(***************************************************************************)
\* file_id definitions with a developer field of 1, 3 and 4 bytes, a plain
\* definition and data records
RegisteredInputs ==
    {<< FileDesc("h14", r, "ok") >> : r \in RecLists({1, 5, 9, 52, 53}, MaxRegisteredRecs)}

\* the base types registered for the developer field: uint8, uint16
RegisteredTypeIds == {2, 132}

InitRegistered ==
    /\ OnlyDecoder
    /\ input \in RegisteredInputs
    /\ file = EncodeStream(input)
    /\ check_developer_data \in BOOLEAN
    /\ InitDecoder
    /\ check_crc
    /\ cached

\* DeveloperDataMixin._append_dev_data_id(0)
AppendDevDataId ==
    /\ pc = "open"
    /\ ~gen.active
    /\ 0 \notin DOMAIN dev_types
    /\ Commit(append_dev_data_id(Self, 0, None, EmptyDict))
    /\ UNCHANGED << name_args, enc, probe, input, file, check_crc, cached,
                    check_developer_data, gen, yielded, passes >>

\* DeveloperDataMixin._append_dev_field_description(0, 0, type=BASE_TYPES[id])
AppendDevFieldDescription(id) ==
    /\ pc = "open"
    /\ ~gen.active
    /\ 0 \in DOMAIN dev_types => 0 \notin DOMAIN dev_types[0].fields
    /\ Commit(append_dev_field_description(Self, 0, 0, BASE_TYPES(id)))
    /\ UNCHANGED << name_args, enc, probe, input, file, check_crc, cached,
                    check_developer_data, gen, yielded, passes >>

NextRegistered ==
    \/ Next
    \/ AppendDevDataId
    \/ \E id \in RegisteredTypeIds : AppendDevFieldDescription(id)

SpecRegistered == InitRegistered /\ [][NextRegistered]_vars

\* the positions at which a record, the trailing CRC or the end of a file
\* of the stream begins
RecordBoundaries(layout) ==
    {layout[i].offset : i \in 1..Len(layout)}
    \cup {BodyEnd(input, k) : k \in 1..Len(input)}
    \cup {BodyEnd(input, k) + 2 : k \in 1..Len(input)}

\* C40: every decoded data message has consumed its header byte and the
\* declared sizes of all its regular and developer field definitions, so
\* that between calls a decoder that raised nothing stands where a record,
\* the trailing CRC or the end of a file begins, and bytes-left is what is
\* left of the body there.
C40_DeclaredSizesConsumed ==
    (pc = "open" /\ error = "none" /\ Len(input) = 1)
    => /\ pos \in RecordBoundaries(Layout(input))
       /\ bytes_left = BodyEnd(input, 1) - pos

\* the part of C40 that holds: the same, when every registered developer
\* field has a base type of one byte (all that a stream can register)
C40_ByteTypedConsumed ==
    (/\ pc = "open" /\ error = "none" /\ Len(input) = 1
     /\ \A d \in DOMAIN dev_types : \A n \in DOMAIN dev_types[d].fields :
            dev_types[d].fields[n].type.size = 1)
    => /\ pos \in RecordBoundaries(Layout(input))
       /\ bytes_left = BodyEnd(input, 1) - pos

\* the developer field is registered as uint16 and declared with 3 bytes:
\* the data record of 5 bytes was decoded without an error and the decoder
\* stands on its last byte
C40_Witness ==
    /\ input[1].recs = << 52, 5 >>
    /\ FieldRegistered /\ dev_types[0].fields[0].type.size = 2
    /\ pc = "open" /\ error = "none"
    /\ pos = Layout(input)[2].offset + 4
    /\ Layout(input)[2].len = 5
    /\ bytes_left = 1

\* registered as uint16 and declared with 4 bytes: two values, 6 bytes read
C40_WitnessMultiple ==
    /\ input[1].recs = << 53, 5 >>
    /\ FieldRegistered /\ dev_types[0].fields[0].type.size = 2
    /\ pc = "open" /\ error = "none"
    /\ pos = Layout(input)[2].offset + 6
    /\ Layout(input)[2].len = 6

\* lenient mode, nothing registered by the client: the developer field of
\* 3 bytes is read as 3 bytes
C40_WitnessDummy ==
    /\ input[1].recs = << 52, 5 >>
    /\ ~check_developer_data
    /\ FieldRegistered /\ dev_types[0].fields[0].type = BASE_TYPE_BYTE
    /\ Len(warnings) = 2
    /\ pc = "open" /\ error = "none"
    /\ pos = Layout(input)[2].offset + 5
====
